---- MODULE Spec2Model ----
(***************************************************************************)
(* Model of the campaign batch-transfer execution engine                   *)
(* (CampaignExecutor in src/src/main/services/SolanaService.ts, with the   *)
(* chain services and the confirmation wait it calls).                     *)
(*                                                                         *)
(* One process per invocation of executeCampaign; a step of a process is   *)
(* the code between two awaits.  The store (SQLite), the chain and the     *)
(* operator (pause / resume) are the environment.                          *)
(***************************************************************************)
EXTENDS Integers, Sequences, FiniteSets, TLC

VARIABLES
    executionMap,   \* CampaignExecutor.executionMap : Map<string, boolean>
    pauseMap,       \* CampaignExecutor.pauseMap     : Map<string, boolean>
    inv,            \* locals of each invocation of executeCampaign
    outcome,        \* how the last call of each invocation ended
    dbCampaigns,    \* table campaigns   : id -> row | NoRow
    dbRecipients,   \* table recipients  : campaign id -> rows in rowid order
    dbTransactions, \* table transactions: set of rows, unique by hash
    txTracked,      \* whether this specification follows the transactions table
    dbChains,       \* table chains      : the chain types with an enabled RPC row
    storeUp,        \* whether a store call succeeds right now
    faults          \* how many faults the environment has injected

vars == <<executionMap, pauseMap, inv, outcome, dbCampaigns, dbRecipients,
          dbTransactions, txTracked, dbChains, storeUp, faults>>

dbVars == <<dbCampaigns, dbRecipients, dbTransactions, txTracked, dbChains>>

storeVars == <<storeUp, faults>>

(***************************************************************************)
(* Bounds                                                                  *)
(***************************************************************************)
NumRecipients == 2
NumInvocations == 2
MaxBatchSize == 1
MaxFaults == 3

(***************************************************************************)
(* Program constants                                                       *)
(***************************************************************************)
DefaultBatchSize == 100
MaxAttempts == 3

Campaigns == {"c1"}
Invocations == 1..NumInvocations
BatchSizes == (1..MaxBatchSize) \cup {DefaultBatchSize}

CampaignStatuses == {"CREATED", "READY", "SENDING", "PAUSED", "COMPLETED", "FAILED"}
RecipientStatuses == {"PENDING", "PROCESSING", "COMPLETED", "FAILED"}
ChainTypes == {"evm", "solana"}
ErrorKinds == {"network", "validation", "chain", "config", "store"}

NoRow == [status |-> "NONE", chain |-> "NONE", walletKey |-> FALSE]
NoHash == 0
EmptyHash == -1
ErrMsg == -2

(***************************************************************************)
(* JavaScript Map                                                          *)
(***************************************************************************)
MapGet(m, k) == IF k \in DOMAIN m THEN m[k] ELSE FALSE

MapSet(m, k, v) == [x \in (DOMAIN m) \cup {k} |-> IF x = k THEN v ELSE m[x]]

MapDelete(m, k) == [x \in (DOMAIN m) \ {k} |-> m[x]]

EmptyMap == [x \in {} |-> FALSE]

\* an amount of tokens m * 10^e with one significant digit; zero is 0 * 10^0
Zero == [m |-> 0, e |-> 0]

\* no allowance has been read
NoApproval == [allowance |-> Zero, total |-> Zero]

\* the timing of a confirmation wait that has not started
NoTiming == [base |-> 0, maxWait |-> 0, congested |-> FALSE, interval |-> 0, at |-> 0]

\* no Solana transaction has been built
NoTx == [native |-> TRUE, recipients |-> 0, creates |-> 0]

(***************************************************************************)
(* Locals of one invocation of executeCampaign                             *)
(***************************************************************************)
IdleInv ==
    [pc |-> "idle", cid |-> "none", batchSize |-> 0, campaign |-> NoRow,
     recipients |-> <<>>, totalBatches |-> 0, batchIndex |-> 0, attempt |-> 0,
     k |-> 0, hash |-> NoHash, conf |-> "none", err |-> "none", landed |-> 0,
     elapsed |-> 0, recheck |-> 0, sawFailed |-> FALSE, tx |-> NoTx,
     sent |-> {}, readErrors |-> 0, approval |-> NoApproval,
     timing |-> NoTiming]

Min(a, b) == IF a < b THEN a ELSE b

\* variant of TotalBatches that rounds down
TotalBatchesFloor(n, batchSize) == n \div batchSize

\* Math.ceil(n / batchSize)
TotalBatches(n, batchSize) == (n + batchSize - 1) \div batchSize

\* variant of BatchSlice without the end of the slice: recipients.slice(start)
BatchSliceToEnd(recipients, batchIndex, batchSize) ==
    SubSeq(recipients, batchIndex * batchSize + 1, Len(recipients))

\* variant of BatchSlice that starts one recipient late
BatchSliceOffByOne(recipients, batchIndex, batchSize) ==
    SubSeq(recipients, batchIndex * batchSize + 2,
           Min(batchIndex * batchSize + batchSize, Len(recipients)))

\* recipients.slice(batchIndex * batchSize, Math.min(start + batchSize, length))
BatchSlice(recipients, batchIndex, batchSize) ==
    SubSeq(recipients, batchIndex * batchSize + 1,
           Min(batchIndex * batchSize + batchSize, Len(recipients)))

Batch(r) == BatchSlice(r.recipients, r.batchIndex, r.batchSize)

Range(s) == {s[x] : x \in DOMAIN s}

(***************************************************************************)
(* Store reads and writes                                                  *)
(***************************************************************************)
\* variant of GetPendingRecipients without the status filter
GetAllRecipients(c) == [a \in DOMAIN dbRecipients[c] |-> a]

\* variant of GetPendingRecipients whose row order is not a function of the
\* pending rows: they come newest first when the campaign was paused
GetPendingRecipientsUnstable(c) ==
    LET rows == SelectSeq([a \in DOMAIN dbRecipients[c] |-> a],
                          LAMBDA a : dbRecipients[c][a].status = "PENDING")
    IN  IF dbCampaigns[c].status # "PAUSED" THEN rows
        ELSE [p \in 1..Len(rows) |-> rows[Len(rows) + 1 - p]]

\* SELECT ... FROM recipients WHERE campaign_id = ? AND status = 'PENDING'
GetPendingRecipients(c) ==
    SelectSeq([a \in DOMAIN dbRecipients[c] |-> a],
              LAMBDA a : dbRecipients[c][a].status = "PENDING")

\* SELECT COUNT(*) FROM recipients WHERE campaign_id = ? AND status = ?
RecipientCount(rows, status) ==
    Cardinality({a \in DOMAIN rows : rows[a].status = status})

\* variant of UpdateCampaignStatus whose write is lost
UpdateCampaignStatusLost(c, status) == dbCampaigns

\* UPDATE campaigns SET status = ? WHERE id = ?
UpdateCampaignStatus(c, status) ==
    IF dbCampaigns[c] = NoRow THEN dbCampaigns
    ELSE [dbCampaigns EXCEPT ![c].status = status]

\* variant of UpdateRecipientStatus whose write is not awaited and is lost
UpdateRecipientStatusLost(c, address, status, txHash) == dbRecipients

\* UPDATE recipients SET status = ?, tx_hash = ? WHERE campaign_id = ? AND address = ?
UpdateRecipientStatus(c, address, status, txHash) ==
    [dbRecipients EXCEPT ![c][address].status = status,
                         ![c][address].txHash = txHash]

\* INSERT OR REPLACE INTO transactions.  The executor writes this table and
\* never reads it, so a specification that does not follow it (txTracked
\* false) has the same behaviours on every other variable.
RecordTransaction(c, hash, type, status) ==
    IF ~txTracked THEN dbTransactions
    ELSE {t \in dbTransactions : t.hash # hash}
            \cup {[hash |-> hash, cid |-> c, type |-> type, status |-> status]}

\* UPDATE transactions SET status = ? WHERE tx_hash = ?
UpdateTransactionStatus(hash, status) ==
    {IF t.hash = hash THEN [t EXCEPT !.status = status] ELSE t : t \in dbTransactions}

\* variant of CanExecute without the validation of the status
CanExecuteAny(status) == TRUE

\* the campaign status must be READY or PAUSED to execute
CanExecute(status) == status \in {"READY", "PAUSED"}

\* getRpcUrlForChain: Solana falls back to the public RPC, an EVM chain needs a row
RpcUrlFound(chain) == chain = "solana" \/ chain \in dbChains

(***************************************************************************)
(* RetryUtils.executeWithRetry (utils/retry-utils)                         *)
(***************************************************************************)
\* variant of Classify that takes every error for a transient one
ClassifyAllRetryable(kind) == {"retryable"}

\* classify(error): network errors are retried, malformed input, chain state
\* and configuration errors are not; a store error is not classified by the
\* specification and may go either way.
Classify(kind) ==
    CASE kind = "network" -> {"retryable"}
      [] kind = "store" -> {"retryable", "fatal"}
      [] OTHER -> {"fatal"}

\* variant of MayRetry that does not count the attempts
MayRetryUnbounded(attempt, kind) == "retryable" \in Classify(kind)

\* another attempt is made while attempts are left and the error is retryable
MayRetry(attempt, kind) == attempt < MaxAttempts /\ "retryable" \in Classify(kind)

\* the wrapper gives up when no attempt is left or the error is fatal
MayGiveUp(attempt, kind) == attempt >= MaxAttempts \/ "fatal" \in Classify(kind)

(***************************************************************************)
(* Control flow of executeCampaign between two awaits                      *)
(***************************************************************************)
\* variant of NextIteration without the pause check
NextIterationIgnoresPause(r, bi) ==
    LET q == [r EXCEPT !.batchIndex = bi, !.attempt = 0, !.k = 0, !.hash = NoHash,
                       !.conf = "none", !.err = "none", !.landed = 0]
    IN  IF bi >= r.totalBatches THEN [q EXCEPT !.pc = "final"]
        ELSE [q EXCEPT !.pc = "rpcUrl", !.attempt = 1]

\* variant of NextIteration that makes the pause check before the loop condition
NextIterationPauseFirst(r, bi) ==
    LET q == [r EXCEPT !.batchIndex = bi, !.attempt = 0, !.k = 0, !.hash = NoHash,
                       !.conf = "none", !.err = "none", !.landed = 0]
    IN  IF MapGet(pauseMap, r.cid) THEN [q EXCEPT !.pc = "setPaused"]
        ELSE IF bi >= r.totalBatches THEN [q EXCEPT !.pc = "final"]
        ELSE [q EXCEPT !.pc = "rpcUrl", !.attempt = 1]

\* the head of the batch loop for batch index bi: loop condition, pause check
NextIteration(r, bi) ==
    LET q == [r EXCEPT !.batchIndex = bi, !.attempt = 0, !.k = 0, !.hash = NoHash,
                       !.conf = "none", !.err = "none", !.landed = 0]
    IN  IF bi >= r.totalBatches THEN [q EXCEPT !.pc = "final"]
        ELSE IF MapGet(pauseMap, r.cid) THEN [q EXCEPT !.pc = "setPaused"]
        ELSE [q EXCEPT !.pc = "rpcUrl", !.attempt = 1]

\* an error reaches the catch block of executeCampaign
CampaignThrow(r, kind) == [r EXCEPT !.pc = "catch", !.err = kind]

\* variant of BatchThrow in which the error of a batch leaves the loop
BatchThrowAborts(r, kind) == {CampaignThrow(r, kind)}

\* executeBatch throws an error of the given kind inside executeWithRetry:
\* either executeBatch is called again, or the batch has failed permanently
\* and the catch block of the loop marks its recipients
BatchThrow(r, kind) ==
    (IF MayRetry(r.attempt, kind)
     THEN {[r EXCEPT !.pc = "rpcUrl", !.attempt = @ + 1, !.k = 0,
                     !.hash = NoHash, !.conf = "none", !.err = kind]}
     ELSE {})
    \cup
    (IF MayGiveUp(r.attempt, kind)
     THEN {[r EXCEPT !.pc = "markFailed", !.k = 1, !.hash = NoHash, !.conf = "none",
                     !.err = kind]}
     ELSE {})

\* variant of Finally that forgets to release the lock
FinallyKeepsLock(i) ==
    /\ pauseMap' = MapDelete(pauseMap, inv[i].cid)
    /\ inv' = [inv EXCEPT ![i] = IdleInv]
    /\ outcome' = [outcome EXCEPT ![i] = "none"]
    /\ UNCHANGED executionMap

\* finally { executionMap.delete(campaignId); pauseMap.delete(campaignId) }
Finally(i) ==
    /\ executionMap' = MapDelete(executionMap, inv[i].cid)
    /\ pauseMap' = MapDelete(pauseMap, inv[i].cid)
    /\ inv' = [inv EXCEPT ![i] = IdleInv]
    /\ outcome' = [outcome EXCEPT ![i] = "none"]

At(i, pc) == inv[i].pc = pc

\* the environment injects one more fault, within the budget of the model
Fault == faults < MaxFaults /\ faults' = faults + 1

NoFault == faults' = faults

Goto(i, r) == inv' = [inv EXCEPT ![i] = r]

(***************************************************************************)
(* executeCampaign                                                         *)
(***************************************************************************)
\* variant of IsExecuting that never sees the lock
IsExecutingBlind(c) == FALSE

\* variant of IsExecuting with one flag for all campaigns
IsExecutingAnyCampaign(c) == DOMAIN executionMap # {}

\* if (this.executionMap.get(campaignId))
IsExecuting(c) == MapGet(executionMap, c)

\* variant of Reject with the check inside the try block: the finally block
\* of the rejected call deletes the lock and the pause flag of the campaign
RejectInsideTry(i, c) ==
    /\ outcome' = [outcome EXCEPT ![i] = "alreadyExecuting"]
    /\ executionMap' = MapDelete(executionMap, c)
    /\ pauseMap' = MapDelete(pauseMap, c)
    /\ UNCHANGED inv

\* throw new Error('Campaign is already executing'), before the try block
Reject(i, c) ==
    /\ outcome' = [outcome EXCEPT ![i] = "alreadyExecuting"]
    /\ UNCHANGED <<executionMap, pauseMap, inv>>

\* the call is rejected while the campaign is executing; otherwise it takes
\* the execution lock and clears the pause flag (a call is given the first
\* idle slot of the model)
Run(i, c, batchSize) ==
    /\ At(i, "idle")
    /\ \A j \in Invocations : j < i => ~At(j, "idle")
    /\ IF IsExecuting(c)
       THEN Reject(i, c)
       ELSE /\ executionMap' = MapSet(executionMap, c, TRUE)
            /\ pauseMap' = MapSet(pauseMap, c, FALSE)
            /\ Goto(i, [IdleInv EXCEPT !.pc = "getCampaign", !.cid = c,
                                       !.batchSize = batchSize])
            /\ outcome' = [outcome EXCEPT ![i] = "none"]
    /\ UNCHANGED <<dbVars, storeVars>>

\* getCampaign and the validation of the campaign: it exists, its status
\* allows a run, its wallet key is present
GetCampaign(i) ==
    /\ At(i, "getCampaign")
    /\ LET r == inv[i]
           row == dbCampaigns[r.cid]
       IN  IF ~storeUp THEN Goto(i, CampaignThrow(r, "store"))
           ELSE IF row = NoRow THEN Goto(i, CampaignThrow(r, "notFound"))
           ELSE IF ~CanExecute(row.status)
                THEN Goto(i, CampaignThrow([r EXCEPT !.campaign = row], "invalidState"))
           ELSE IF ~row.walletKey
                THEN Goto(i, CampaignThrow([r EXCEPT !.campaign = row], "walletKey"))
           ELSE Goto(i, [r EXCEPT !.pc = "getPending", !.campaign = row])
    /\ UNCHANGED <<executionMap, pauseMap, outcome, dbVars, storeVars>>

\* variant of NothingPending without the early return of the empty case
NothingPendingIgnored(recipients) == FALSE

\* if (recipients.length === 0)
NothingPending(recipients) == Len(recipients) = 0

\* getPendingRecipients, the empty case and the number of batches
GetPending(i) ==
    /\ At(i, "getPending")
    /\ LET r == inv[i]
           recipients == GetPendingRecipients(r.cid)
       IN  IF ~storeUp THEN Goto(i, CampaignThrow(r, "store"))
           ELSE IF NothingPending(recipients)
                THEN Goto(i, [r EXCEPT !.pc = "completeEmpty"])
           ELSE Goto(i, [r EXCEPT !.pc = "setSending", !.recipients = recipients,
                                  !.totalBatches = TotalBatches(Len(recipients), r.batchSize)])
    /\ UNCHANGED <<executionMap, pauseMap, outcome, dbVars, storeVars>>

\* no pending recipient: the campaign is completed and the call returns
CompleteEmpty(i) ==
    /\ At(i, "completeEmpty")
    /\ IF storeUp
       THEN /\ dbCampaigns' = UpdateCampaignStatus(inv[i].cid, "COMPLETED")
            /\ Finally(i)
       ELSE /\ Goto(i, CampaignThrow(inv[i], "store"))
            /\ UNCHANGED <<dbCampaigns, executionMap, pauseMap, outcome>>
    /\ UNCHANGED <<dbRecipients, dbTransactions, txTracked, dbChains, storeUp, faults>>

\* the campaign becomes SENDING and the loop starts with batch 0
SetSending(i) ==
    /\ At(i, "setSending")
    /\ IF storeUp
       THEN /\ dbCampaigns' = UpdateCampaignStatus(inv[i].cid, "SENDING")
            /\ Goto(i, NextIteration(inv[i], 0))
       ELSE /\ Goto(i, CampaignThrow(inv[i], "store"))
            /\ UNCHANGED dbCampaigns
    /\ UNCHANGED <<executionMap, pauseMap, outcome, dbRecipients, dbTransactions,
                   txTracked, dbChains, storeVars>>

\* a pause was requested: the campaign becomes PAUSED and the loop is left
SetPaused(i) ==
    /\ At(i, "setPaused")
    /\ IF storeUp
       THEN /\ dbCampaigns' = UpdateCampaignStatus(inv[i].cid, "PAUSED")
            /\ Goto(i, [inv[i] EXCEPT !.pc = "final"])
       ELSE /\ Goto(i, CampaignThrow(inv[i], "store"))
            /\ UNCHANGED dbCampaigns
    /\ UNCHANGED <<executionMap, pauseMap, outcome, dbRecipients, dbTransactions,
                   txTracked, dbChains, storeVars>>

(***************************************************************************)
(* executeBatch                                                            *)
(***************************************************************************)
\* the outcomes of waitForTransactionConfirmation for a hash: it never throws;
\* the lookup of an empty hash is never confirmed
ConfirmOutcomes(hash) ==
    IF hash = EmptyHash THEN {"failed", "timeout"}
    ELSE {"confirmed", "failed", "timeout"}

\* the hash the chain gives the transaction sent by attempt `attempt` for the
\* batch that starts with recipient `first`: approvals and transfers differ,
\* and no two transactions share a hash
TxHash(first, attempt, type) ==
    first * 100 + attempt * 10 + (IF type = "APPROVE_TOKENS" THEN 1 ELSE 2)

FreshHash(r, type) == TxHash(Batch(r)[1], r.attempt, type)

\* getRpcUrlForChain, the first await of executeBatch (the error of an
\* earlier attempt is gone once the wrapper calls executeBatch again)
GetRpcUrl(i) ==
    /\ At(i, "rpcUrl")
    /\ LET r == [inv[i] EXCEPT !.err = "none"]
       IN  IF ~storeUp THEN \E q \in BatchThrow(r, "store") : Goto(i, q)
           ELSE IF ~RpcUrlFound(r.campaign.chain)
                THEN \E q \in BatchThrow(r, "config") : Goto(i, q)
           ELSE IF r.campaign.chain = "solana"
                THEN Goto(i, [r EXCEPT !.pc = "submit"])
           ELSE Goto(i, [r EXCEPT !.pc = "checkApproval"])
    /\ UNCHANGED <<executionMap, pauseMap, outcome, dbVars, storeVars>>

\* contractService.checkApproval: true when the allowance covers the total;
\* executeBatch approves when it returns false
CheckApproval(i) ==
    /\ At(i, "checkApproval")
    /\ \E covered \in BOOLEAN :
          Goto(i, [inv[i] EXCEPT !.pc = IF covered THEN "submit" ELSE "approve"])
    /\ UNCHANGED <<executionMap, pauseMap, outcome, dbVars, storeVars>>

\* contractService.approveTokens: it throws, or returns the hash of the
\* approval; the hash is recorded by the next store call
ApproveTokens(i) ==
    /\ At(i, "approve")
    /\ \/ /\ \E q \in BatchThrow(inv[i], "network") : Goto(i, q)
          /\ Fault
       \/ /\ Goto(i, [inv[i] EXCEPT !.pc = "recordApproval",
                                      !.hash = FreshHash(inv[i], "APPROVE_TOKENS")])
          /\ NoFault
    /\ UNCHANGED <<executionMap, pauseMap, outcome, dbVars, storeUp>>

\* recordTransaction(APPROVE_TOKENS, PENDING): a store error is swallowed
RecordApproval(i) ==
    /\ At(i, "recordApproval")
    /\ dbTransactions' = IF storeUp
                         THEN RecordTransaction(inv[i].cid, inv[i].hash, "APPROVE_TOKENS", "PENDING")
                         ELSE dbTransactions
    /\ Goto(i, [inv[i] EXCEPT !.pc = "approveWait"])
    /\ UNCHANGED <<executionMap, pauseMap, outcome, dbCampaigns, dbRecipients,
                   txTracked, dbChains, storeVars>>

\* waitForConfirmation of the approval: it returns when confirmed and throws
\* on timeout; then updateTransactionStatus(CONFIRMED), store errors swallowed
ApproveWait(i) ==
    /\ At(i, "approveWait")
    /\ \/ /\ \E q \in BatchThrow(inv[i], "network") : Goto(i, q)
          /\ Fault
          /\ UNCHANGED dbTransactions
       \/ /\ dbTransactions' = IF storeUp
                                THEN UpdateTransactionStatus(inv[i].hash, "CONFIRMED")
                                ELSE dbTransactions
          /\ Goto(i, [inv[i] EXCEPT !.pc = "submit", !.hash = NoHash])
          /\ NoFault
    /\ UNCHANGED <<executionMap, pauseMap, outcome, dbCampaigns, dbRecipients,
                   txTracked, dbChains, storeUp>>

\* EVM: contractService.batchTransfer up to contract.batchTransfer(...): it
\* throws before anything is sent, or the transaction is sent and has a hash
SubmitEvm(i) ==
    /\ At(i, "submit")
    /\ inv[i].campaign.chain = "evm"
    /\ \/ /\ \E kind \in {"network", "validation"} :
                \E q \in BatchThrow(inv[i], kind) : Goto(i, q)
          /\ Fault
       \/ /\ Goto(i, [inv[i] EXCEPT !.pc = "txWait", !.landed = @ + 1,
                                      !.hash = FreshHash(inv[i], "BATCH_SEND")])
          /\ NoFault
    /\ UNCHANGED <<executionMap, pauseMap, outcome, dbVars, storeUp>>

\* EVM: tx.wait() inside contractService.batchTransfer: the receipt arrives,
\* or the wait throws and batchTransfer rethrows
TxWait(i) ==
    /\ At(i, "txWait")
    /\ \/ /\ \E kind \in {"network", "chain"} :
                \E q \in BatchThrow(inv[i], kind) : Goto(i, q)
          /\ Fault
       \/ /\ Goto(i, [inv[i] EXCEPT !.pc = "record"])
          /\ NoFault
    /\ UNCHANGED <<executionMap, pauseMap, outcome, dbVars, storeUp>>

\* Solana: solanaService.batchTransfer: it throws before any transfer, or it
\* returns; a failed sub-batch is swallowed and leaves no hash, also when
\* its transaction landed but its confirmation failed
SubmitSolana(i) ==
    /\ At(i, "submit")
    /\ inv[i].campaign.chain = "solana"
    /\ \/ /\ \E kind \in {"network", "validation"} :
                \E q \in BatchThrow(inv[i], kind) : Goto(i, q)
          /\ Fault
       \/ /\ Goto(i, [inv[i] EXCEPT !.pc = "record", !.landed = @ + 1,
                                      !.hash = FreshHash(inv[i], "BATCH_SEND")])
          /\ NoFault
       \/ /\ \E landed \in {0, 1} :
                Goto(i, [inv[i] EXCEPT !.pc = "record", !.hash = EmptyHash, !.landed = @ + landed])
          /\ Fault
    /\ UNCHANGED <<executionMap, pauseMap, outcome, dbVars, storeUp>>

\* recordTransaction(BATCH_SEND, PENDING): a store error is swallowed
RecordTx(i) ==
    /\ At(i, "record")
    /\ dbTransactions' = IF storeUp
                         THEN RecordTransaction(inv[i].cid, inv[i].hash, "BATCH_SEND", "PENDING")
                         ELSE dbTransactions
    /\ Goto(i, [inv[i] EXCEPT !.pc = "confirm"])
    /\ UNCHANGED <<executionMap, pauseMap, outcome, dbCampaigns, dbRecipients,
                   txTracked, dbChains, storeVars>>

\* TransactionUtils.waitForTransactionConfirmation
Confirm(i) ==
    /\ At(i, "confirm")
    /\ \E conf \in ConfirmOutcomes(inv[i].hash) :
          /\ Goto(i, [inv[i] EXCEPT !.pc = "updateTx", !.conf = conf])
          /\ IF conf = "confirmed" \/ inv[i].hash = EmptyHash THEN NoFault ELSE Fault
    /\ UNCHANGED <<executionMap, pauseMap, outcome, dbVars, storeUp>>

\* updateTransactionStatus(CONFIRMED or FAILED): a store error is swallowed
UpdateTx(i) ==
    /\ At(i, "updateTx")
    /\ dbTransactions' =
          IF storeUp
          THEN UpdateTransactionStatus(inv[i].hash,
                   IF inv[i].conf = "confirmed" THEN "CONFIRMED" ELSE "FAILED")
          ELSE dbTransactions
    /\ Goto(i, [inv[i] EXCEPT !.pc = "mark", !.k = 1])
    /\ UNCHANGED <<executionMap, pauseMap, outcome, dbCampaigns, dbRecipients,
                   txTracked, dbChains, storeVars>>

\* variant of MarkedStatus that leaves a recipient of an unconfirmed batch
\* in an intermediate status
MarkedStatusProcessing(conf) == IF conf = "confirmed" THEN "COMPLETED" ELSE "PROCESSING"

\* the status of recipient k of the batch after the confirmation wait
MarkedStatus(conf) == IF conf = "confirmed" THEN "COMPLETED" ELSE "FAILED"

\* one updateRecipientStatus of the loop after the confirmation wait; after
\* the last one executeBatch returns
MarkRecipient(i) ==
    /\ At(i, "mark")
    /\ LET r == inv[i]
           batch == Batch(r)
       IN  IF ~storeUp
           THEN /\ \E q \in BatchThrow(r, "store") : Goto(i, q)
                /\ UNCHANGED dbRecipients
           ELSE /\ dbRecipients' =
                      UpdateRecipientStatus(r.cid, batch[r.k], MarkedStatus(r.conf),
                          IF r.conf = "confirmed" THEN r.hash ELSE ErrMsg)
                /\ Goto(i, IF r.k < Len(batch) THEN [r EXCEPT !.k = @ + 1]
                            ELSE [r EXCEPT !.pc = "progress", !.k = 0])
    /\ UNCHANGED <<executionMap, pauseMap, outcome, dbCampaigns, dbTransactions,
                   txTracked, dbChains, storeVars>>

(***************************************************************************)
(* executeCampaign, after executeBatch                                     *)
(***************************************************************************)
\* the progress counts after a successful executeWithRetry; a store error
\* here is caught by the catch block of the loop
Progress(i) ==
    /\ At(i, "progress")
    /\ IF storeUp THEN Goto(i, [inv[i] EXCEPT !.pc = "delay"])
       ELSE Goto(i, [inv[i] EXCEPT !.pc = "markFailed", !.k = 1, !.hash = NoHash,
                                   !.conf = "none"])
    /\ UNCHANGED <<executionMap, pauseMap, outcome, dbVars, storeVars>>

\* the delay between two batches, then the head of the loop
Delay(i) ==
    /\ At(i, "delay")
    /\ Goto(i, NextIteration(inv[i], inv[i].batchIndex + 1))
    /\ UNCHANGED <<executionMap, pauseMap, outcome, dbVars, storeVars>>

\* the catch block of the loop: one updateRecipientStatus(FAILED, message);
\* after the last one the loop goes on with the next batch
MarkFailed(i) ==
    /\ At(i, "markFailed")
    /\ LET r == inv[i]
           batch == Batch(r)
       IN  IF ~storeUp
           THEN /\ Goto(i, CampaignThrow(r, "store"))
                /\ UNCHANGED dbRecipients
           ELSE /\ dbRecipients' = UpdateRecipientStatus(r.cid, batch[r.k], "FAILED", ErrMsg)
                /\ Goto(i, IF r.k < Len(batch) THEN [r EXCEPT !.k = @ + 1]
                            ELSE NextIteration(r, r.batchIndex + 1))
    /\ UNCHANGED <<executionMap, pauseMap, outcome, dbCampaigns, dbTransactions,
                   txTracked, dbChains, storeVars>>

\* variant of CompletesCampaign that completes only a run without failures
CompletesCampaignStrict(pending, failed) == pending = 0 /\ failed = 0

\* the final status: COMPLETED when no recipient is pending, whether or not
\* some failed; otherwise the status is left as it is
CompletesCampaign(pending, failed) == pending = 0

\* the final counts; the call returns when a recipient is still pending
Final(i) ==
    /\ At(i, "final")
    /\ LET rows == dbRecipients[inv[i].cid]
       IN  IF ~storeUp
           THEN /\ Goto(i, CampaignThrow(inv[i], "store"))
                /\ UNCHANGED <<executionMap, pauseMap, outcome>>
           ELSE IF CompletesCampaign(RecipientCount(rows, "PENDING"),
                                     RecipientCount(rows, "FAILED"))
                THEN /\ Goto(i, [inv[i] EXCEPT !.pc = "setCompleted"])
                     /\ UNCHANGED <<executionMap, pauseMap, outcome>>
           ELSE Finally(i)
    /\ UNCHANGED <<dbVars, storeVars>>

\* the final status update, then the call returns
SetCompleted(i) ==
    /\ At(i, "setCompleted")
    /\ IF storeUp
       THEN /\ dbCampaigns' = UpdateCampaignStatus(inv[i].cid, "COMPLETED")
            /\ Finally(i)
       ELSE /\ Goto(i, CampaignThrow(inv[i], "store"))
            /\ UNCHANGED <<dbCampaigns, executionMap, pauseMap, outcome>>
    /\ UNCHANGED <<dbRecipients, dbTransactions, txTracked, dbChains, storeUp, faults>>

\* the catch block of executeCampaign: the campaign becomes FAILED (unless
\* this store call throws too) and the error is thrown again
Catch(i) ==
    /\ At(i, "catch")
    /\ dbCampaigns' = IF storeUp THEN UpdateCampaignStatus(inv[i].cid, "FAILED")
                      ELSE dbCampaigns
    /\ Finally(i)
    /\ UNCHANGED <<dbRecipients, dbTransactions, txTracked, dbChains, storeUp, faults>>

(***************************************************************************)
(* The operator and the store                                              *)
(***************************************************************************)
PauseExecution(c) ==
    /\ pauseMap' = MapSet(pauseMap, c, TRUE)
    /\ UNCHANGED <<executionMap, inv, outcome, dbVars, storeVars>>

ResumeExecution(c) ==
    /\ pauseMap' = MapSet(pauseMap, c, FALSE)
    /\ UNCHANGED <<executionMap, inv, outcome, dbVars, storeVars>>

StoreFails ==
    /\ storeUp
    /\ Fault
    /\ storeUp' = FALSE
    /\ UNCHANGED <<executionMap, pauseMap, inv, outcome, dbVars>>

StoreRecovers ==
    /\ ~storeUp
    /\ storeUp' = TRUE
    /\ UNCHANGED <<executionMap, pauseMap, inv, outcome, dbVars, faults>>

(***************************************************************************)
(* Specification                                                           *)
(***************************************************************************)
NewRecipient == [status |-> "PENDING", txHash |-> NoHash, error |-> NoHash]

Init ==
    /\ executionMap = EmptyMap
    /\ pauseMap = EmptyMap
    /\ inv = [i \in Invocations |-> IdleInv]
    /\ outcome = [i \in Invocations |-> "none"]
    /\ \/ \E status \in {"CREATED", "READY"}, chain \in ChainTypes,
              walletKey \in BOOLEAN, n \in 0..NumRecipients :
              /\ dbCampaigns = [c \in Campaigns |->
                    [status |-> status, chain |-> chain, walletKey |-> walletKey]]
              /\ dbRecipients = [c \in Campaigns |-> [a \in 1..n |-> NewRecipient]]
       \/ /\ dbCampaigns = [c \in Campaigns |-> NoRow]
          /\ dbRecipients = [c \in Campaigns |-> <<>>]
    /\ dbTransactions = {}
    /\ txTracked = FALSE
    /\ dbChains \in {{"solana"}, {"evm", "solana"}}
    /\ (\E c \in Campaigns : dbCampaigns[c].chain # "evm") => "evm" \in dbChains
    /\ storeUp = TRUE
    /\ faults = 0

Next ==
    \/ \E i \in Invocations, c \in Campaigns, batchSize \in BatchSizes : Run(i, c, batchSize)
    \/ \E i \in Invocations : GetCampaign(i)
    \/ \E i \in Invocations : GetPending(i)
    \/ \E i \in Invocations : CompleteEmpty(i)
    \/ \E i \in Invocations : SetSending(i)
    \/ \E i \in Invocations : SetPaused(i)
    \/ \E i \in Invocations : GetRpcUrl(i)
    \/ \E i \in Invocations : CheckApproval(i)
    \/ \E i \in Invocations : ApproveTokens(i)
    \/ \E i \in Invocations : RecordApproval(i)
    \/ \E i \in Invocations : ApproveWait(i)
    \/ \E i \in Invocations : SubmitEvm(i)
    \/ \E i \in Invocations : TxWait(i)
    \/ \E i \in Invocations : SubmitSolana(i)
    \/ \E i \in Invocations : RecordTx(i)
    \/ \E i \in Invocations : Confirm(i)
    \/ \E i \in Invocations : UpdateTx(i)
    \/ \E i \in Invocations : MarkRecipient(i)
    \/ \E i \in Invocations : Progress(i)
    \/ \E i \in Invocations : Delay(i)
    \/ \E i \in Invocations : MarkFailed(i)
    \/ \E i \in Invocations : Final(i)
    \/ \E i \in Invocations : SetCompleted(i)
    \/ \E i \in Invocations : Catch(i)
    \/ \E c \in Campaigns : PauseExecution(c)
    \/ \E c \in Campaigns : ResumeExecution(c)
    \/ StoreFails
    \/ StoreRecovers

Spec == Init /\ [][Next]_vars

(***************************************************************************)
(* Contract deployment (campaign:deployContract handler).  The handler runs *)
(* inside campaignService.deployContractWithLock, which is modelled from    *)
(* the specification of the lock registry: TryAcquire on the registry that  *)
(* executeCampaign uses, release on every exit.  The model has no contract  *)
(* reference, so the handler's writes are outside its state.                *)
(***************************************************************************)
\* TryAcquire for a deployment: rejected while the campaign holds the lock
DeployContract(i, c) ==
    /\ At(i, "idle")
    /\ \A j \in Invocations : j < i => ~At(j, "idle")
    /\ IF IsExecuting(c)
       THEN Reject(i, c)
       ELSE /\ executionMap' = MapSet(executionMap, c, TRUE)
            /\ Goto(i, [IdleInv EXCEPT !.pc = "deploy", !.cid = c])
            /\ outcome' = [outcome EXCEPT ![i] = "none"]
            /\ UNCHANGED pauseMap
    /\ UNCHANGED <<dbVars, storeVars>>

\* the handler returns or throws: the lock is released
DeployDone(i) ==
    /\ At(i, "deploy")
    /\ executionMap' = MapDelete(executionMap, inv[i].cid)
    /\ inv' = [inv EXCEPT ![i] = IdleInv]
    /\ outcome' = [outcome EXCEPT ![i] = "none"]
    /\ UNCHANGED <<pauseMap, dbVars, storeVars>>

NextDeploy ==
    \/ Next
    \/ \E i \in Invocations, c \in Campaigns : DeployContract(i, c)
    \/ \E i \in Invocations : DeployDone(i)

SpecDeploy == Init /\ [][NextDeploy]_vars

(***************************************************************************)
(* Properties                                                              *)
(***************************************************************************)
Active(i) == inv[i].pc # "idle"

\* the invocations that are executing campaign c
Holders(c) == {i \in Invocations : Active(i) /\ inv[i].cid = c}

\* invocation i takes a step of executeCampaign
Steps(i) == inv'[i] # inv[i]

\* the call of invocation i returns or throws in this step
Exits(i) == Active(i) /\ inv'[i].pc = "idle"

\* a call on slot i is rejected in this step
Rejected(i) == outcome'[i] = "alreadyExecuting" /\ outcome[i] # "alreadyExecuting"

\* C1: at any time at most one invocation of executeCampaign holds the
\* execution lock of a campaign, and a call made while another invocation
\* for the same campaign is in progress does not start: it fails with the
\* already-executing error.
C1_MutualExclusion ==
    /\ [](\A c \in Campaigns : Cardinality(Holders(c)) <= 1)
    /\ [][\A i \in Invocations :
            /\ (At(i, "idle") /\ Steps(i)) => Holders(inv'[i].cid) = {}
            /\ (At(i, "idle") /\ outcome'[i] # outcome[i] /\ ~Steps(i))
                  => /\ outcome'[i] = "alreadyExecuting"
                     /\ \E c \in Campaigns : Holders(c) # {}]_vars

\* a call was rejected while another invocation was still in progress
C1_Witness ==
    \E i, j \in Invocations :
        Active(i) /\ ~Active(j) /\ outcome[j] = "alreadyExecuting"

\* C2: on every exit path of executeCampaign (all batches done, nothing
\* pending, pause, an error thrown) the lock of the campaign is released in
\* the step in which the call returns or throws, so the lock is only ever
\* held for a campaign that an invocation is executing.
C2_LockReleased ==
    /\ [](\A c \in Campaigns : IsExecuting(c) => Holders(c) # {})
    /\ [][\A i \in Invocations : Exits(i) => ~MapGet(executionMap', inv[i].cid)]_vars

\* a run has thrown (the campaign is FAILED), nothing is executing and the
\* lock is free
C2_Witness ==
    /\ \A i \in Invocations : ~Active(i)
    /\ dbCampaigns["c1"].status = "FAILED"
    /\ ~IsExecuting("c1")

\* C3: a call that is rejected because the campaign is executing changes
\* nothing: the campaign status, the recipients, the transaction records,
\* the pause flag, the lock and the locals of the run in progress are the
\* same after the call as before it.
C3_RejectedRunNoSideEffects ==
    [][\A i \in Invocations :
          Rejected(i) => UNCHANGED <<dbVars, pauseMap, executionMap, inv>>]_vars

\* a call was rejected while the run in progress had a pause request and a
\* recipient already processed
C3_Witness ==
    \E i, j \in Invocations :
        /\ outcome[j] = "alreadyExecuting"
        /\ Active(i)
        /\ MapGet(pauseMap, inv[i].cid)
        /\ \E a \in DOMAIN dbRecipients[inv[i].cid] :
              dbRecipients[inv[i].cid][a].status = "COMPLETED"

\* recipient a is in the batch that invocation record r is processing
InBatch(r, a) ==
    \E p \in DOMAIN r.recipients :
        /\ p > r.batchIndex * r.batchSize
        /\ p <= r.batchIndex * r.batchSize + r.batchSize
        /\ r.recipients[p] = a

\* invocation i is at the head of the batch loop in this step
BoundaryStep(i) ==
    /\ Steps(i)
    /\ inv'[i].pc # "catch"
    /\ \/ At(i, "setSending")
       \/ At(i, "delay")
       \/ At(i, "markFailed") /\ inv'[i].pc # "markFailed"

\* C4: when a batch fails permanently (the retries of its submission are
\* used up or its error is fatal, or its confirmation is failed or timed
\* out), every recipient of that batch and no recipient of another batch is
\* marked FAILED, and the run goes on with the next batch: no step of a run
\* changes a recipient outside its current batch.
C4_BatchFailureIsolated ==
    [][\A i \in Invocations : Active(i) =>
          LET r == inv[i]
              c == r.cid
          IN  /\ \A a \in DOMAIN dbRecipients[c] :
                    dbRecipients'[c][a] # dbRecipients[c][a] => InBatch(r, a)
              /\ (At(i, "markFailed") /\ inv'[i].pc \notin {"markFailed", "catch"})
                    => /\ \A a \in DOMAIN dbRecipients[c] :
                             InBatch(r, a) => dbRecipients'[c][a].status = "FAILED"
                       /\ inv'[i].batchIndex = r.batchIndex + 1
                       /\ inv'[i].pc \in {"rpcUrl", "setPaused", "final"}
              /\ (At(i, "mark") /\ r.conf # "confirmed" /\ inv'[i].pc = "progress")
                    => \A a \in DOMAIN dbRecipients[c] :
                          InBatch(r, a) => dbRecipients'[c][a].status = "FAILED"
              /\ (At(i, "delay") /\ Steps(i))
                    => /\ inv'[i].batchIndex = r.batchIndex + 1
                       /\ inv'[i].pc \in {"rpcUrl", "setPaused", "final"}]_vars

\* the last attempt of the first batch has failed (the retries are used up)
\* and the catch block of the loop is about to mark its recipients, with
\* another batch left to process
C4_Witness ==
    \E i \in Invocations :
        /\ At(i, "markFailed")
        /\ inv[i].attempt = MaxAttempts
        /\ inv[i].batchIndex + 1 < inv[i].totalBatches
        /\ storeUp

\* C5: a pause request changes nothing but the flag, the flag is looked at
\* only at the head of the batch loop, and when it is set there while a
\* batch is left the next batch is not started: the campaign becomes PAUSED
\* and the call returns with the campaign PAUSED (the store being up).
C5_PauseAtBatchBoundary ==
    [][/\ (\E c \in Campaigns : MapGet(pauseMap', c) /\ ~MapGet(pauseMap, c))
             => UNCHANGED <<inv, dbVars, executionMap>>
       /\ \A i \in Invocations :
             LET r == inv[i]
             IN  /\ (Steps(i) /\ inv'[i].pc = "setPaused") => BoundaryStep(i)
                 /\ (BoundaryStep(i) /\ MapGet(pauseMap, r.cid)
                        /\ inv'[i].batchIndex < r.totalBatches)
                       => inv'[i].pc = "setPaused"
                 /\ (At(i, "setPaused") /\ Steps(i) /\ storeUp)
                       => /\ dbCampaigns'[r.cid].status = "PAUSED"
                          /\ inv'[i] = [r EXCEPT !.pc = "final"]
                 /\ (At(i, "final") /\ r.batchIndex < r.totalBatches
                        /\ Steps(i) /\ storeUp)
                       => /\ Exits(i)
                          /\ dbCampaigns'[r.cid].status = "PAUSED"
                          /\ dbRecipients' = dbRecipients]_vars

\* a run was paused after its first batch: the batch has its outcome, the
\* second batch was not started and the campaign is PAUSED
C5_Witness ==
    \E i \in Invocations :
        /\ At(i, "final")
        /\ inv[i].batchIndex = 1
        /\ inv[i].totalBatches = 2
        /\ dbCampaigns[inv[i].cid].status = "PAUSED"
        /\ dbRecipients[inv[i].cid][inv[i].recipients[1]].status = "COMPLETED"
        /\ dbRecipients[inv[i].cid][inv[i].recipients[2]].status = "PENDING"

\* C6: a run loads only the recipients that are PENDING, and every batch it
\* starts holds only recipients that are PENDING at that moment: a run that
\* follows a paused one takes up no recipient that is already COMPLETED.
C6_ResumeOnlyPending ==
    [][\A i \in Invocations :
          /\ (At(i, "getPending") /\ Steps(i))
                => \A p \in DOMAIN inv'[i].recipients :
                      dbRecipients[inv[i].cid][inv'[i].recipients[p]].status = "PENDING"
          /\ (Steps(i) /\ inv'[i].pc = "rpcUrl" /\ inv'[i].attempt = 1)
                => \A a \in DOMAIN dbRecipients[inv[i].cid] :
                      InBatch(inv'[i], a)
                         => dbRecipients'[inv[i].cid][a].status = "PENDING"]_vars

\* a run of a PAUSED campaign has started a batch while a recipient of the
\* campaign is COMPLETED and not among the recipients it loaded
C6_Witness ==
    \E i \in Invocations :
        /\ At(i, "rpcUrl")
        /\ inv[i].campaign.status = "PAUSED"
        /\ \E a \in DOMAIN dbRecipients[inv[i].cid] :
              /\ dbRecipients[inv[i].cid][a].status = "COMPLETED"
              /\ a \notin Range(inv[i].recipients)

\* the call of invocation i returns (it does not throw) in this step
Returns(i) == Exits(i) /\ ~At(i, "catch")

\* C7: within one iteration of the batch loop the transfer transaction of
\* the batch is sent at most once: after a transaction was sent and has a
\* hash, no later error makes the executor send the batch again.
C7_NoResubmission == \A i \in Invocations : inv[i].landed <= 1

\* C8: when a call returns (all batches done, nothing pending, or paused),
\* the numbers of COMPLETED, FAILED and PENDING recipients of the campaign
\* add up to the number of its recipients.
C8_CountsAddUp ==
    [][\A i \in Invocations : Returns(i) =>
          LET rows == dbRecipients'[inv[i].cid]
          IN  RecipientCount(rows, "COMPLETED") + RecipientCount(rows, "FAILED")
                 + RecipientCount(rows, "PENDING") = Len(rows)]_vars

\* a paused run has returned, leaving a FAILED and a PENDING recipient
C8_Witness ==
    /\ \A i \in Invocations : ~Active(i)
    /\ dbCampaigns["c1"].status = "PAUSED"
    /\ RecipientCount(dbRecipients["c1"], "FAILED") = 1
    /\ RecipientCount(dbRecipients["c1"], "PENDING") = 1

\* C9: when the final counts of a run find no PENDING recipient, the run
\* sets the campaign COMPLETED and returns, whether or not a recipient is
\* FAILED (the store being up).
C9_CompletedDespiteFailures ==
    [][\A i \in Invocations :
          /\ (At(i, "final") /\ Steps(i) /\ storeUp
                 /\ RecipientCount(dbRecipients[inv[i].cid], "PENDING") = 0)
                => inv'[i].pc = "setCompleted"
          /\ (At(i, "setCompleted") /\ Steps(i) /\ storeUp)
                => /\ Exits(i)
                   /\ dbCampaigns'[inv[i].cid].status = "COMPLETED"]_vars

\* a run has returned with the campaign COMPLETED, one recipient COMPLETED
\* and one FAILED
C9_Witness ==
    /\ \A i \in Invocations : ~Active(i)
    /\ dbCampaigns["c1"].status = "COMPLETED"
    /\ RecipientCount(dbRecipients["c1"], "FAILED") = 1
    /\ RecipientCount(dbRecipients["c1"], "COMPLETED") = 1

\* a step of invocation i in which a campaign-level failure occurs: the RPC
\* configuration of the chain is missing, or a store call throws
CampaignLevelFailure(i) ==
    /\ Steps(i)
    /\ \/ At(i, "rpcUrl") /\ storeUp /\ ~RpcUrlFound(inv[i].campaign.chain)
       \/ /\ ~storeUp
          /\ inv[i].pc \in {"getCampaign", "getPending", "completeEmpty", "setSending",
                            "setPaused", "rpcUrl", "mark", "progress", "markFailed",
                            "final", "setCompleted"}

\* C10: when a campaign-level failure occurs during a run (no RPC
\* configuration for the chain of the campaign, or the store unavailable),
\* the run processes no further batch (the error reaches the catch block of
\* executeCampaign) and the campaign becomes FAILED.
C10_CampaignLevelFailureAborts ==
    [][\A i \in Invocations :
          /\ CampaignLevelFailure(i) => inv'[i].pc = "catch"
          /\ (At(i, "catch") /\ Steps(i) /\ storeUp)
                => dbCampaigns'[inv[i].cid].status = "FAILED"]_vars

\* the errors thrown outside the batch loop's try block: by the validation
\* of the campaign or by a store call of executeCampaign
CampaignLevelErrors == {"store", "notFound", "invalidState", "walletKey"}

\* C11: an error of a batch (its submission failing, a revert, a
\* confirmation that is failed or timed out) never reaches the catch block
\* of executeCampaign, and the campaign status becomes FAILED only in that
\* catch block, on an error thrown outside the batch: no step of the batch
\* loop writes FAILED to the campaign.
C11_BatchFailureNeverFailsCampaign ==
    /\ [](\A i \in Invocations :
            At(i, "catch") => inv[i].err \in CampaignLevelErrors)
    /\ [][\A c \in Campaigns :
            (dbCampaigns'[c].status = "FAILED" /\ dbCampaigns[c].status # "FAILED")
               => \E i \in Invocations :
                     /\ At(i, "catch") /\ inv[i].cid = c
                     /\ inv[i].err \in CampaignLevelErrors]_vars

\* every recipient of a run was marked FAILED by batch failures, the loop
\* is over and the campaign is still SENDING
C11_Witness ==
    \E i \in Invocations :
        /\ At(i, "final")
        /\ inv[i].batchIndex = inv[i].totalBatches
        /\ inv[i].totalBatches = 2
        /\ RecipientCount(dbRecipients[inv[i].cid], "FAILED") = 2
        /\ dbCampaigns[inv[i].cid].status = "SENDING"

C13_TerminalStatusKept ==
    [][\A i \in Invocations :
          LET row == dbCampaigns[inv[i].cid]
          IN  /\ (At(i, "getCampaign") /\ Steps(i) /\ storeUp
                     /\ row.status \in {"COMPLETED", "FAILED"})
                    => inv'[i].pc = "catch" /\ inv'[i].err = "invalidState"
              /\ (At(i, "catch") /\ inv[i].err = "invalidState"
                     /\ inv[i].campaign.status \in {"COMPLETED", "FAILED"})
                    => dbCampaigns'[inv[i].cid].status = inv[i].campaign.status]_vars

\* C14: a call that finds no PENDING recipient goes from the load of the
\* recipients straight to the write of COMPLETED and returns: the status it
\* replaces is the one it loaded (READY or PAUSED, not SENDING), and it has
\* sent no batch and changes no recipient (the store being up).
C14_EmptyRunCompletes ==
    [][\A i \in Invocations :
          LET c == inv[i].cid
          IN  /\ (At(i, "getPending") /\ Steps(i) /\ storeUp
                     /\ RecipientCount(dbRecipients[c], "PENDING") = 0)
                    => inv'[i].pc = "completeEmpty" /\ dbCampaigns' = dbCampaigns
              /\ At(i, "completeEmpty")
                    => /\ dbCampaigns[c].status = inv[i].campaign.status
                       /\ dbCampaigns[c].status # "SENDING"
                       /\ inv[i].landed = 0 /\ inv[i].recipients = <<>>
              /\ (At(i, "completeEmpty") /\ Steps(i) /\ storeUp)
                    => /\ dbCampaigns'[c].status = "COMPLETED"
                       /\ Exits(i)
                       /\ dbRecipients' = dbRecipients]_vars

\* a call for a READY campaign has found no pending recipient and is about
\* to write COMPLETED
C14_Witness ==
    \E i \in Invocations :
        /\ At(i, "completeEmpty")
        /\ dbCampaigns[inv[i].cid].status = "READY"
        /\ storeUp

\* the recipients of the batches before the one invocation record r is at
EarlierBatches(r) ==
    {r.recipients[p] : p \in {q \in DOMAIN r.recipients : q <= r.batchIndex * r.batchSize}}

\* C15: the batches of a run are processed one after the other: whenever a
\* run is at batch k of its loop, every recipient of the batches before k
\* has its outcome stored (COMPLETED or FAILED), so the submission of a
\* batch never starts before the statuses of the previous batch are stored.
C15_OneBatchInFlight ==
    \A i \in Invocations :
        Active(i) =>
            \A a \in EarlierBatches(inv[i]) :
                dbRecipients[inv[i].cid][a].status \in {"COMPLETED", "FAILED"}

\* the second batch of a run has been sent while the first has its status
C15_Witness ==
    \E i \in Invocations :
        /\ At(i, "confirm")
        /\ inv[i].batchIndex = 1
        /\ inv[i].landed = 1
        /\ dbRecipients[inv[i].cid][inv[i].recipients[1]].status = "COMPLETED"

(***************************************************************************)
(* Two campaigns.  executeCampaign takes any campaign id; here the store    *)
(* holds two campaigns, an EVM one and a Solana one, both READY, and        *)
(* callers start, pause and resume either of them with the default batch    *)
(* size.                                                                    *)
(***************************************************************************)
TwoCampaigns == {"c1", "c2"}

\* recipients per campaign in the specifications with a larger state
FewRecipients == 1

InitTwo ==
    /\ executionMap = EmptyMap /\ pauseMap = EmptyMap
    /\ inv = [i \in Invocations |-> IdleInv]
    /\ outcome = [i \in Invocations |-> "none"]
    /\ dbCampaigns = [c \in TwoCampaigns |->
                         [status |-> "READY",
                          chain |-> IF c = "c1" THEN "evm" ELSE "solana",
                          walletKey |-> TRUE]]
    /\ \E n \in 0..FewRecipients :
           dbRecipients = [c \in TwoCampaigns |->
                             [a \in 1..(IF c = "c1" THEN n ELSE FewRecipients) |-> NewRecipient]]
    /\ dbTransactions = {} /\ txTracked = FALSE
    /\ dbChains = {"evm", "solana"}
    /\ storeUp = TRUE /\ faults = 0

\* the operations of Next over both campaigns; the store stays up
NextTwo ==
    \/ \E i \in Invocations, c \in TwoCampaigns : Run(i, c, DefaultBatchSize)
    \/ \E i \in Invocations : GetCampaign(i)
    \/ \E i \in Invocations : GetPending(i)
    \/ \E i \in Invocations : CompleteEmpty(i)
    \/ \E i \in Invocations : SetSending(i)
    \/ \E i \in Invocations : SetPaused(i)
    \/ \E i \in Invocations : GetRpcUrl(i)
    \/ \E i \in Invocations : CheckApproval(i)
    \/ \E i \in Invocations : ApproveTokens(i)
    \/ \E i \in Invocations : RecordApproval(i)
    \/ \E i \in Invocations : ApproveWait(i)
    \/ \E i \in Invocations : SubmitEvm(i)
    \/ \E i \in Invocations : TxWait(i)
    \/ \E i \in Invocations : SubmitSolana(i)
    \/ \E i \in Invocations : RecordTx(i)
    \/ \E i \in Invocations : Confirm(i)
    \/ \E i \in Invocations : UpdateTx(i)
    \/ \E i \in Invocations : MarkRecipient(i)
    \/ \E i \in Invocations : Progress(i)
    \/ \E i \in Invocations : Delay(i)
    \/ \E i \in Invocations : MarkFailed(i)
    \/ \E i \in Invocations : Final(i)
    \/ \E i \in Invocations : SetCompleted(i)
    \/ \E i \in Invocations : Catch(i)
    \/ \E c \in TwoCampaigns : PauseExecution(c)
    \/ \E c \in TwoCampaigns : ResumeExecution(c)

SpecTwo == InitTwo /\ [][NextTwo]_vars

\* invocation i is a deployment for campaign c / a send run for campaign c
Deploying(i, c) == At(i, "deploy") /\ inv[i].cid = c

Sending(i, c) == Active(i) /\ ~At(i, "deploy") /\ inv[i].cid = c

InvocationStep(i) ==
    \/ GetCampaign(i) \/ GetPending(i) \/ CompleteEmpty(i) \/ SetSending(i)
    \/ SetPaused(i) \/ GetRpcUrl(i) \/ CheckApproval(i) \/ ApproveTokens(i)
    \/ RecordApproval(i) \/ ApproveWait(i) \/ SubmitEvm(i) \/ TxWait(i)
    \/ SubmitSolana(i) \/ RecordTx(i) \/ Confirm(i) \/ UpdateTx(i)
    \/ MarkRecipient(i) \/ Progress(i) \/ Delay(i) \/ MarkFailed(i)
    \/ Final(i) \/ SetCompleted(i) \/ Catch(i)

\* C17: runs for different campaigns never block each other: a call for a
\* campaign that no invocation is executing is accepted whatever lock another
\* campaign holds, and a run in progress can always take its next step,
\* whatever the run of another campaign is doing.
C17_DifferentCampaignsIndependent ==
    /\ [](\A i \in Invocations : Active(i) => ENABLED InvocationStep(i))
    /\ [][\A i \in Invocations, c \in TwoCampaigns :
            (Run(i, c, DefaultBatchSize) /\ Holders(c) = {})
               => /\ inv'[i].pc = "getCampaign" /\ inv'[i].cid = c
                  /\ outcome'[i] # "alreadyExecuting"]_vars

\* both campaigns are being sent at the same time
C17_Witness ==
    \E i, j \in Invocations :
        /\ inv[i].cid = "c1" /\ At(i, "txWait")
        /\ inv[j].cid = "c2" /\ At(j, "confirm")

(***************************************************************************)
(* The transactions table.  Spec leaves the table out (the executor never   *)
(* reads it); SpecTx follows it, for one READY campaign.                    *)
(***************************************************************************)
InitTx ==
    /\ executionMap = EmptyMap /\ pauseMap = EmptyMap
    /\ inv = [i \in Invocations |-> IdleInv]
    /\ outcome = [i \in Invocations |-> "none"]
    /\ \E chain \in ChainTypes, n \in 0..FewRecipients :
          /\ dbCampaigns = [c \in Campaigns |->
                               [status |-> "READY", chain |-> chain, walletKey |-> TRUE]]
          /\ dbRecipients = [c \in Campaigns |-> [a \in 1..n |-> NewRecipient]]
    /\ dbTransactions = {} /\ txTracked = TRUE
    /\ dbChains = {"evm", "solana"}
    /\ storeUp = TRUE /\ faults = 0

SpecTx == InitTx /\ [][Next]_vars

\* invocation i has sent the transfer transaction of its batch, the chain
\* gave it a hash, and its outcome is being awaited
AwaitingOutcome(i) == inv[i].pc \in {"txWait", "confirm"} /\ inv[i].hash > 0

\* C18: once the transfer transaction of a batch has been submitted, and
\* before its outcome is known, the transactions table holds a PENDING
\* BATCH_SEND record with the hash of that transaction.
C18_PendingRecordBeforeOutcome ==
    \A i \in Invocations : AwaitingOutcome(i) =>
        \E t \in dbTransactions :
            /\ t.hash = inv[i].hash /\ t.cid = inv[i].cid
            /\ t.type = "BATCH_SEND" /\ t.status = "PENDING"

(***************************************************************************)
(* Crash and restart.  The process dies during a run and is started again:  *)
(* a new CampaignExecutor has empty maps and no invocation; the store keeps *)
(* what was written.                                                        *)
(***************************************************************************)
Crash ==
    /\ \E i \in Invocations : Active(i)
    /\ executionMap' = EmptyMap
    /\ pauseMap' = EmptyMap
    /\ inv' = [i \in Invocations |-> IdleInv]
    /\ outcome' = [i \in Invocations |-> "none"]
    /\ UNCHANGED <<dbVars, storeVars>>

NextCrash ==
    \/ Next
    \/ Crash

SpecCrash == Init /\ [][NextCrash]_vars

\* C19: a run is accepted for a campaign whose stored status is SENDING, the
\* status a crash in the batch loop leaves behind, and it then processes
\* exactly the recipients that are still PENDING.
C19_RestartResumes ==
    [][\A i \in Invocations :
          LET c == inv[i].cid
          IN  /\ (/\ At(i, "getCampaign") /\ Steps(i) /\ storeUp
                   /\ dbCampaigns[c].status = "SENDING" /\ dbCampaigns[c].walletKey)
                     => inv'[i].pc = "getPending"
              /\ (At(i, "getPending") /\ inv'[i].pc = "setSending")
                     => inv'[i].recipients = GetPendingRecipients(c)]_vars

\* C20: executeWithRetry with maxAttempts = 3 calls executeBatch at most 3
\* times for one batch of a run: the number of the current call never
\* exceeds MaxAttempts.
C20_RetryBound == \A i \in Invocations : inv[i].attempt <= MaxAttempts

\* the third call of executeBatch for a batch is about to submit
C20_Witness == \E i \in Invocations : At(i, "submit") /\ inv[i].attempt = MaxAttempts

\* C21: a batch whose submission is rejected for malformed input is never
\* attempted again: the error is fatal, so after it the invocation is in the
\* catch block of the batch loop, never in another call of executeBatch.
C21_MalformedInputNotRetried ==
    \A i \in Invocations : inv[i].err = "validation" => At(i, "markFailed")

\* the first attempt of a batch was rejected for malformed input
C21_Witness ==
    \E i \in Invocations :
        /\ At(i, "markFailed") /\ inv[i].err = "validation"
        /\ inv[i].attempt = 1 /\ inv[i].landed = 0

(***************************************************************************)
(* TransactionUtils.waitForTransactionConfirmation, step by step.  Spec     *)
(* takes the wait as the single step Confirm; SpecWait follows its polling  *)
(* loop for one READY campaign.  Time is counted in check intervals:        *)
(* elapsed is Date.now() - startTime, capped at MaxWaitTime.                *)
(***************************************************************************)
MaxWaitTime == 2

\* maxAttempts of the re-check after a read error
RecheckAttempts == 2

\* what getTransactionStatus resolves to; the lookup of an empty hash is
\* never confirmed
StatusResults(hash) ==
    IF hash = EmptyHash THEN {"failed", "pending"}
    ELSE {"confirmed", "failed", "pending"}

Tick(t) == Min(t + 1, MaxWaitTime)

\* return { confirmed, finalStatus, ... } to executeBatch
WaitReturn(r, finalStatus) ==
    [r EXCEPT !.pc = "updateTx", !.conf = finalStatus, !.elapsed = 0, !.recheck = 0]

\* the status of the normal polling path: confirmed and failed return,
\* anything else sleeps until the next check
PollResult(r, status) ==
    IF status = "confirmed" THEN WaitReturn(r, "confirmed")
    ELSE IF status = "failed" THEN WaitReturn([r EXCEPT !.sawFailed = TRUE], "failed")
    ELSE [r EXCEPT !.pc = "sleep"]

\* the status of a successful re-check: only confirmed returns, anything
\* else falls through to the head of the loop
RecheckResult(r, status) ==
    IF status = "confirmed" THEN WaitReturn(r, "confirmed")
    ELSE [r EXCEPT !.pc = "waitLoop", !.recheck = 0,
                   !.sawFailed = @ \/ status = "failed"]

\* the call of waitForTransactionConfirmation: startTime, finalStatus = timeout
WaitEnter(i) ==
    /\ At(i, "confirm")
    /\ Goto(i, [inv[i] EXCEPT !.pc = "waitLoop", !.elapsed = 0, !.recheck = 0,
                                !.sawFailed = FALSE])
    /\ UNCHANGED <<executionMap, pauseMap, outcome, dbVars, storeVars>>

\* variant of WaitLoop that never gives up
WaitLoopNoTimeout(i) ==
    /\ At(i, "waitLoop")
    /\ Goto(i, [inv[i] EXCEPT !.pc = "poll"])
    /\ UNCHANGED <<executionMap, pauseMap, outcome, dbVars, storeVars>>

\* while (Date.now() - startTime < maxWaitTime), and the return after it
WaitLoop(i) ==
    /\ At(i, "waitLoop")
    /\ IF inv[i].elapsed < MaxWaitTime
       THEN Goto(i, [inv[i] EXCEPT !.pc = "poll"])
       ELSE Goto(i, WaitReturn(inv[i], "timeout"))
    /\ UNCHANGED <<executionMap, pauseMap, outcome, dbVars, storeVars>>

\* await getTransactionStatus(txHash) in the try block
Poll(i) ==
    /\ At(i, "poll")
    /\ \/ /\ \E status \in StatusResults(inv[i].hash) :
                /\ Goto(i, PollResult(inv[i], status))
                /\ IF status = "failed" /\ inv[i].hash # EmptyHash THEN Fault ELSE NoFault
       \/ /\ Goto(i, [inv[i] EXCEPT !.pc = "recheck", !.recheck = 1])
          /\ Fault
    /\ UNCHANGED <<executionMap, pauseMap, outcome, dbVars, storeUp>>

\* await this.sleep(dynamicInterval)
Sleep(i) ==
    /\ At(i, "sleep")
    /\ Goto(i, [inv[i] EXCEPT !.pc = "waitLoop", !.elapsed = Tick(@)])
    /\ UNCHANGED <<executionMap, pauseMap, outcome, dbVars, storeVars>>

\* one attempt of the re-check in the catch block: sleep(checkInterval),
\* then getTransactionStatus; a throw is retried while attempts are left
Recheck(i) ==
    /\ At(i, "recheck")
    /\ LET r == [inv[i] EXCEPT !.elapsed = Tick(@)]
       IN  \/ /\ \E status \in StatusResults(r.hash) :
                    /\ Goto(i, RecheckResult(r, status))
                    /\ IF status = "failed" /\ r.hash # EmptyHash THEN Fault ELSE NoFault
           \/ /\ Goto(i, IF r.recheck < RecheckAttempts
                          THEN [r EXCEPT !.recheck = @ + 1]
                          ELSE [r EXCEPT !.pc = "waitLoop", !.recheck = 0])
              /\ Fault
    /\ UNCHANGED <<executionMap, pauseMap, outcome, dbVars, storeUp>>

InitWait ==
    /\ executionMap = EmptyMap /\ pauseMap = EmptyMap
    /\ inv = [i \in Invocations |-> IdleInv]
    /\ outcome = [i \in Invocations |-> "none"]
    /\ \E chain \in ChainTypes, n \in 0..FewRecipients :
          /\ dbCampaigns = [c \in Campaigns |->
                               [status |-> "READY", chain |-> chain, walletKey |-> TRUE]]
          /\ dbRecipients = [c \in Campaigns |-> [a \in 1..n |-> NewRecipient]]
    /\ dbTransactions = {} /\ txTracked = FALSE
    /\ dbChains = {"evm", "solana"}
    /\ storeUp = TRUE /\ faults = 0

\* the operations of Next with the confirmation wait taken step by step
NextWait ==
    \/ \E i \in Invocations, c \in Campaigns, batchSize \in BatchSizes : Run(i, c, batchSize)
    \/ \E i \in Invocations : GetCampaign(i)
    \/ \E i \in Invocations : GetPending(i)
    \/ \E i \in Invocations : CompleteEmpty(i)
    \/ \E i \in Invocations : SetSending(i)
    \/ \E i \in Invocations : SetPaused(i)
    \/ \E i \in Invocations : GetRpcUrl(i)
    \/ \E i \in Invocations : CheckApproval(i)
    \/ \E i \in Invocations : ApproveTokens(i)
    \/ \E i \in Invocations : RecordApproval(i)
    \/ \E i \in Invocations : ApproveWait(i)
    \/ \E i \in Invocations : SubmitEvm(i)
    \/ \E i \in Invocations : TxWait(i)
    \/ \E i \in Invocations : SubmitSolana(i)
    \/ \E i \in Invocations : RecordTx(i)
    \/ \E i \in Invocations : UpdateTx(i)
    \/ \E i \in Invocations : MarkRecipient(i)
    \/ \E i \in Invocations : Progress(i)
    \/ \E i \in Invocations : Delay(i)
    \/ \E i \in Invocations : MarkFailed(i)
    \/ \E i \in Invocations : Final(i)
    \/ \E i \in Invocations : SetCompleted(i)
    \/ \E i \in Invocations : Catch(i)
    \/ \E c \in Campaigns : PauseExecution(c)
    \/ \E c \in Campaigns : ResumeExecution(c)
    \/ StoreFails
    \/ StoreRecovers
    \/ \E i \in Invocations : WaitEnter(i)
    \/ \E i \in Invocations : WaitLoop(i)
    \/ \E i \in Invocations : Poll(i)
    \/ \E i \in Invocations : Sleep(i)
    \/ \E i \in Invocations : Recheck(i)

SpecWait == InitWait /\ [][NextWait]_vars

\* invocation i is inside waitForTransactionConfirmation
Waiting(i) == inv[i].pc \in {"waitLoop", "poll", "sleep", "recheck"}

\* C22: once a status check of the confirmation wait has reported the
\* transaction as failed, on the polling path or in a re-check after a read
\* error, the wait has returned with finalStatus failed: the invocation is
\* not in the wait any more, so the status function is not called again.
C22_FailedStopsPolling ==
    \A i \in Invocations :
        inv[i].sawFailed =>
            /\ ~Waiting(i)
            /\ At(i, "updateTx") => inv[i].conf = "failed"

\* C23: when the maximum wait has elapsed and no status check has returned
\* confirmed or failed, the confirmation wait returns finalStatus timeout
\* (confirmed = false), and the executor treats the batch as failed: it marks
\* the recipients of the batch FAILED.
C23_TimeoutIsFailure ==
    [][\A i \in Invocations :
          LET r == inv[i]
          IN  /\ (At(i, "waitLoop") /\ Steps(i) /\ r.elapsed >= MaxWaitTime)
                    => inv'[i].pc = "updateTx" /\ inv'[i].conf = "timeout"
              /\ (At(i, "mark") /\ Steps(i) /\ storeUp /\ r.conf = "timeout")
                    => dbRecipients'[r.cid][Batch(r)[r.k]].status = "FAILED"]_vars

\* every status check was pending until the wait ran out, and the first
\* recipient of the batch is about to be marked
C23_Witness ==
    \E i \in Invocations :
        /\ At(i, "mark") /\ inv[i].conf = "timeout" /\ ~inv[i].sawFailed
        /\ inv[i].hash > 0 /\ faults = 0 /\ storeUp

\* the batches of the loop from batch index b on, one after the other
RECURSIVE BatchesFrom(_, _, _)
BatchesFrom(recipients, batchSize, b) ==
    IF b >= TotalBatches(Len(recipients), batchSize) THEN <<>>
    ELSE BatchSlice(recipients, b, batchSize) \o BatchesFrom(recipients, batchSize, b + 1)

\* the recipients of the batches after the current one
LaterBatches(r) ==
    {r.recipients[p] : p \in {q \in DOMAIN r.recipients :
                                 q > r.batchIndex * r.batchSize + r.batchSize}}

\* C24: the batches of a run are consecutive slices of the loaded list of
\* pending recipients in its order: put one after the other they give the
\* list back (every recipient is in exactly one batch), no batch is empty or
\* longer than the batch size, and they are processed in order: while the run
\* is at a batch, no recipient of a later batch has been touched.
C24_BatchesPartitionInOrder ==
    \A i \in Invocations :
        LET r == inv[i]
        IN  (Active(i) /\ r.totalBatches > 0) =>
               /\ BatchesFrom(r.recipients, r.batchSize, 0) = r.recipients
               /\ \A b \in 0..(r.totalBatches - 1) :
                      /\ Len(BatchSlice(r.recipients, b, r.batchSize)) >= 1
                      /\ Len(BatchSlice(r.recipients, b, r.batchSize)) <= r.batchSize
               /\ \A a \in LaterBatches(r) : dbRecipients[r.cid][a].status = "PENDING"

\* the second of two batches is being submitted after the first was marked
C24_Witness ==
    \E i \in Invocations :
        /\ At(i, "submit") /\ inv[i].totalBatches = 2 /\ inv[i].batchIndex = 1
        /\ Batch(inv[i]) = <<inv[i].recipients[2]>>
        /\ dbRecipients[inv[i].cid][inv[i].recipients[1]].status # "PENDING"

\* the rows of a set of recipients in the order of the table
RECURSIVE InTableOrder(_)
InTableOrder(S) ==
    IF S = {} THEN <<>>
    ELSE LET first == CHOOSE a \in S : \A b \in S : a <= b
         IN  <<first>> \o InTableOrder(S \ {first})

NativeSubBatch == 15

SplSubBatch == 8

MaxTransactionSize == 1232

\* variant of SubBatchSize with the batch of the executor as one sub-batch
SubBatchSizeWhole(native) == DefaultBatchSize

\* const batchSize = tokenInfo.isNativeSOL ? 15 : 8
SubBatchSize(native) == IF native THEN NativeSubBatch ELSE SplSubBatch

\* transaction.instructions.length: one transfer for each recipient, and for
\* an SPL token one more for each recipient without a token account
TxInstructions(tx) == tx.recipients + tx.creates

\* transaction.serialize(...).length of a legacy transaction with distinct
\* recipients: one signature, the message header, the account keys, the
\* blockhash and the instructions.
\* Native: keys are the wallet, the system program and the recipients; a
\* transfer has 2 account indices and 12 bytes of data.
\* SPL: keys are the wallet, its token account, the token program and the
\* token accounts of the recipients; a transfer has 3 account indices and 9
\* bytes of data.  Creating token accounts adds the mint, the system
\* program, the associated-token program and the rent sysvar once, and for
\* each created account the key of its owner and an instruction with 7
\* account indices and no data.
TxSize(tx) ==
    LET keys == IF tx.native THEN 2 + tx.recipients
                ELSE 3 + tx.recipients + (IF tx.creates > 0 THEN 4 + tx.creates ELSE 0)
        instructions == IF tx.native THEN tx.recipients * (1 + 1 + 2 + 1 + 12)
                        ELSE tx.recipients * (1 + 1 + 3 + 1 + 9)
                                + tx.creates * (1 + 1 + 7 + 1 + 0)
    IN  (1 + 64) + 3 + (1 + 32 * keys) + 32 + (1 + instructions)

\* the lengths of the sub-batches batchTransfer cuts a batch of n recipients into
SubBatchLengths(n, native) ==
    {Min(SubBatchSize(native), n - sb * SubBatchSize(native)) :
        sb \in 0..(TotalBatches(n, SubBatchSize(native)) - 1)}

\* the transactions batchTransfer can build for a batch of n recipients
BuiltTransactions(n) ==
    UNION {UNION {{[native |-> native, recipients |-> m, creates |-> creates] :
                      creates \in 0..(IF native THEN 0 ELSE m)} :
                  m \in SubBatchLengths(n, native)} :
           native \in BOOLEAN}

\* solanaService.batchTransfer, keeping one of the transactions it sent
SubmitSolanaTx(i) ==
    /\ At(i, "submit")
    /\ inv[i].campaign.chain = "solana"
    /\ \/ /\ \E kind \in {"network", "validation"} :
                \E q \in BatchThrow(inv[i], kind) : Goto(i, q)
          /\ Fault
       \/ /\ \E tx \in BuiltTransactions(Len(Batch(inv[i]))) :
                Goto(i, [inv[i] EXCEPT !.pc = "record", !.landed = @ + 1,
                                       !.hash = FreshHash(inv[i], "BATCH_SEND"),
                                       !.tx = tx])
          /\ NoFault
       \/ /\ \E landed \in {0, 1} :
                Goto(i, [inv[i] EXCEPT !.pc = "record", !.hash = EmptyHash, !.landed = @ + landed])
          /\ Fault
    /\ UNCHANGED <<executionMap, pauseMap, outcome, dbVars, storeUp>>

(***************************************************************************)
(* The scenarios of the batch planner: one READY campaign with 3 or 250     *)
(* pending recipients, run with a batch size of 10, 100 or 250.  The        *)
(* scenarios are about runs in which nothing fails: the store stays up, the *)
(* environment injects no fault (its budget is spent from the start) and    *)
(* nobody pauses the campaign.                                              *)
(***************************************************************************)
PlanRecipients == {3, 250}

PlanBatchSizes == {10, 100, 250}

\* the batch size limit of the batch contract
ChainMaxBatch == 200

InitPlan ==
    /\ executionMap = EmptyMap /\ pauseMap = EmptyMap
    /\ inv = [i \in Invocations |-> IdleInv]
    /\ outcome = [i \in Invocations |-> "none"]
    /\ \E chain \in ChainTypes, n \in PlanRecipients :
          /\ dbCampaigns = [c \in Campaigns |->
                               [status |-> "READY", chain |-> chain, walletKey |-> TRUE]]
          /\ dbRecipients = [c \in Campaigns |-> [a \in 1..n |-> NewRecipient]]
    /\ dbTransactions = {} /\ txTracked = FALSE
    /\ dbChains = {"evm", "solana"}
    /\ storeUp = TRUE /\ faults = MaxFaults

NextPlan ==
    \/ \E i \in Invocations, c \in Campaigns, batchSize \in PlanBatchSizes : Run(i, c, batchSize)
    \/ \E i \in Invocations : GetCampaign(i)
    \/ \E i \in Invocations : GetPending(i)
    \/ \E i \in Invocations : SetSending(i)
    \/ \E i \in Invocations : GetRpcUrl(i)
    \/ \E i \in Invocations : CheckApproval(i)
    \/ \E i \in Invocations : ApproveTokens(i)
    \/ \E i \in Invocations : RecordApproval(i)
    \/ \E i \in Invocations : ApproveWait(i)
    \/ \E i \in Invocations : SubmitEvm(i)
    \/ \E i \in Invocations : TxWait(i)
    \/ \E i \in Invocations : SubmitSolanaTx(i)
    \/ \E i \in Invocations : RecordTx(i)
    \/ \E i \in Invocations : Confirm(i)
    \/ \E i \in Invocations : UpdateTx(i)
    \/ \E i \in Invocations : MarkRecipient(i)
    \/ \E i \in Invocations : Progress(i)
    \/ \E i \in Invocations : Delay(i)
    \/ \E i \in Invocations : Final(i)
    \/ \E i \in Invocations : SetCompleted(i)
    \/ \E i \in Invocations : Catch(i)

SpecPlan == InitPlan /\ [][NextPlan]_vars

\* C26: whatever batch size is requested, no batch given to the batch
\* contract has more recipients than the chain maximum, and 250 recipients
\* with batch size 100 make at least 2 batches.
C26_BatchSizeClamped ==
    \A i \in Invocations :
        LET r == inv[i]
        IN  /\ (At(i, "submit") /\ r.campaign.chain = "evm")
                  => Len(Batch(r)) <= ChainMaxBatch
            /\ (Active(i) /\ Len(r.recipients) = 250 /\ r.batchSize = 100)
                  => r.totalBatches >= 2

\* C27: every Solana transaction built for a batch has at most 15
\* instructions when it transfers native SOL and at most 8 when it transfers
\* an SPL token.
C27_InstructionLimit ==
    \A i \in Invocations :
        inv[i].tx # NoTx => TxInstructions(inv[i].tx) <= SubBatchSize(inv[i].tx.native)

\* C28: no Solana transaction whose serialized size exceeds 1232 bytes is
\* sent: every transaction batchTransfer builds and sends is within the limit.
C28_TransactionSizeLimit ==
    \A i \in Invocations :
        inv[i].tx # NoTx => TxSize(inv[i].tx) <= MaxTransactionSize

\* a full SPL sub-batch in which every recipient needed a token account was
\* sent, the largest transaction the sub-batch sizes allow
C28_Witness ==
    \E i \in Invocations :
        /\ At(i, "record")
        /\ inv[i].tx = [native |-> FALSE, recipients |-> SplSubBatch, creates |-> SplSubBatch]
        /\ TxSize(inv[i].tx) > 1000

\* invocation i runs scenario A: 3 pending recipients, batch size 10
ScenarioA(i) == Len(inv[i].recipients) = 3 /\ inv[i].batchSize = 10

\* C29: a campaign with 3 pending recipients run with batch size 10 makes
\* exactly 1 batch of the 3 recipients; when the batch was submitted and
\* confirmed, all 3 recipients are COMPLETED, and the run ends by storing
\* the campaign status COMPLETED.
C29_ScenarioA ==
    /\ [](\A i \in Invocations : ScenarioA(i) =>
             LET r == inv[i]
             IN  /\ r.totalBatches = 1
                 /\ r.batchIndex = 0 => Batch(r) = r.recipients
                 /\ (r.pc \in {"progress", "delay"} /\ r.conf = "confirmed")
                       => RecipientCount(dbRecipients[r.cid], "COMPLETED") = 3)
    /\ [][\A i \in Invocations :
             LET r == inv[i]
                 done == RecipientCount(dbRecipients[r.cid], "COMPLETED") = 3
             IN  (ScenarioA(i) /\ Steps(i) /\ storeUp /\ done) =>
                    /\ At(i, "delay") => inv'[i].pc = "final"
                    /\ At(i, "final") => inv'[i].pc = "setCompleted"
                    /\ At(i, "setCompleted")
                          => /\ dbCampaigns'[r.cid].status = "COMPLETED"
                             /\ Exits(i)]_vars

\* scenario A is about to store COMPLETED after its only batch was confirmed
C29_Witness ==
    \E i \in Invocations :
        /\ ScenarioA(i) /\ At(i, "setCompleted")
        /\ dbCampaigns[inv[i].cid].status = "SENDING"
        /\ RecipientCount(dbRecipients[inv[i].cid], "COMPLETED") = 3

\* invocation i is submitting a batch or waiting for its outcome
Processing(i) ==
    inv[i].pc \in {"rpcUrl", "checkApproval", "approve", "recordApproval", "approveWait",
                   "submit", "txWait", "record", "confirm", "updateTx", "mark"}

\* C30: batches are processed only in state SENDING: whenever a batch of a
\* campaign is being submitted or awaited, the stored status of the campaign
\* is SENDING.
C30_ProcessingOnlyWhenSending ==
    \A i \in Invocations :
        Processing(i) => dbCampaigns[inv[i].cid].status = "SENDING"

\* the batch of a resumed run is being submitted
C30_Witness ==
    \E i \in Invocations :
        /\ At(i, "submit") /\ inv[i].campaign.status = "PAUSED"
        /\ dbCampaigns[inv[i].cid].status = "SENDING"

\* C31: every recipient marked FAILED has its failure reason stored in its
\* error field, and the txHash field of a recipient holds a transaction hash
\* or nothing.
C31_FailureReasonStored ==
    \A c \in Campaigns :
        \A a \in DOMAIN dbRecipients[c] :
            LET row == dbRecipients[c][a]
            IN  /\ row.status = "FAILED" => row.error # NoHash
                /\ row.txHash = NoHash \/ row.txHash > 0

\* invocation i is at a batch boundary: it has just made the pause check at
\* the head of the loop, or it has left the loop
AtBoundary(i) ==
    \/ At(i, "rpcUrl") /\ inv[i].attempt = 1
    \/ At(i, "setPaused")
    \/ At(i, "final")

\* the recipients of the current batch and of the batches after it
BatchesToCome(r) ==
    {r.recipients[p] : p \in {q \in DOMAIN r.recipients : q > r.batchIndex * r.batchSize}}

\* C32: progress is persisted after each batch: at every batch boundary of a
\* run, every recipient of a batch already processed has a stored status of
\* COMPLETED or FAILED and every recipient of a batch not yet processed is
\* still PENDING.
C32_ProgressPersisted ==
    \A i \in Invocations :
        LET r == inv[i]
        IN  AtBoundary(i) =>
               /\ \A a \in EarlierBatches(r) :
                      dbRecipients[r.cid][a].status \in {"COMPLETED", "FAILED"}
               /\ \A a \in BatchesToCome(r) :
                      dbRecipients[r.cid][a].status = "PENDING"

\* the pause check after the first of two batches found the pause flag set
C32_Witness ==
    \E i \in Invocations :
        /\ At(i, "setPaused") /\ inv[i].batchIndex = 1 /\ inv[i].totalBatches = 2
        /\ dbRecipients[inv[i].cid][inv[i].recipients[1]].status = "COMPLETED"
        /\ dbRecipients[inv[i].cid][inv[i].recipients[2]].status = "PENDING"

(***************************************************************************)
(* The transfers of a batch that were sent.  SubmitSolanaParts and          *)
(* SubmitEvmParts are SubmitSolana and SubmitEvm and also keep, in `sent`,  *)
(* the recipients of the run whose transfer was in a transaction that the   *)
(* chain service reported as sent.  On Solana a recipient is left out when  *)
(* the preparation of its instruction failed or when the transaction of its *)
(* sub-batch failed; batchTransfer swallows both and returns the signatures *)
(* of the other sub-batches.                                                *)
(***************************************************************************)
PartsRecipients == {9}

\* the sub-batch of the recipient at position p of the batch
SubBatchOf(p, native) == (p - 1) \div SubBatchSize(native)

\* the positions of a batch of n recipients whose transfer was sent: the
\* prepared ones of the sub-batches whose transaction succeeded
SentPositions(n, native) ==
    {{p \in prep : SubBatchOf(p, native) \in ok} :
        prep \in SUBSET (1..n),
        ok \in SUBSET (0..(TotalBatches(n, SubBatchSize(native)) - 1))}

\* solanaService.batchTransfer, keeping the recipients whose transfer was sent
SubmitSolanaParts(i) ==
    /\ At(i, "submit")
    /\ inv[i].campaign.chain = "solana"
    /\ LET r == inv[i]
           batch == Batch(r)
       IN  \/ /\ \E kind \in {"network", "validation"} :
                     \E q \in BatchThrow(r, kind) : Goto(i, q)
              /\ Fault
           \/ \E native \in BOOLEAN :
                 \E P \in SentPositions(Len(batch), native) :
                    IF P = {}
                    THEN /\ \E landed \in {0, 1} :
                               Goto(i, [r EXCEPT !.pc = "record", !.hash = EmptyHash,
                                                 !.landed = @ + landed])
                         /\ Fault
                    ELSE /\ Goto(i, [r EXCEPT !.pc = "record", !.landed = @ + 1,
                                              !.hash = FreshHash(r, "BATCH_SEND"),
                                              !.sent = @ \cup {batch[p] : p \in P}])
                         /\ IF P = DOMAIN batch THEN NoFault ELSE Fault
    /\ UNCHANGED <<executionMap, pauseMap, outcome, dbVars, storeUp>>

\* contractService.batchTransfer up to the send: one transaction for the batch
SubmitEvmParts(i) ==
    /\ At(i, "submit")
    /\ inv[i].campaign.chain = "evm"
    /\ \/ /\ \E kind \in {"network", "validation"} :
                \E q \in BatchThrow(inv[i], kind) : Goto(i, q)
          /\ Fault
       \/ /\ Goto(i, [inv[i] EXCEPT !.pc = "txWait", !.landed = @ + 1,
                                      !.hash = FreshHash(inv[i], "BATCH_SEND"),
                                      !.sent = @ \cup Range(Batch(inv[i]))])
          /\ NoFault
    /\ UNCHANGED <<executionMap, pauseMap, outcome, dbVars, storeUp>>

\* one READY campaign with enough pending recipients for two sub-batches of
\* an SPL token; the store stays up and nobody pauses the campaign
InitParts ==
    /\ executionMap = EmptyMap /\ pauseMap = EmptyMap
    /\ inv = [i \in Invocations |-> IdleInv]
    /\ outcome = [i \in Invocations |-> "none"]
    /\ \E chain \in ChainTypes, n \in PartsRecipients :
          /\ dbCampaigns = [c \in Campaigns |->
                               [status |-> "READY", chain |-> chain, walletKey |-> TRUE]]
          /\ dbRecipients = [c \in Campaigns |-> [a \in 1..n |-> NewRecipient]]
    /\ dbTransactions = {} /\ txTracked = FALSE
    /\ dbChains = {"evm", "solana"}
    /\ storeUp = TRUE /\ faults = 0

NextParts ==
    \/ \E i \in Invocations, c \in Campaigns : Run(i, c, DefaultBatchSize)
    \/ \E i \in Invocations : GetCampaign(i)
    \/ \E i \in Invocations : GetPending(i)
    \/ \E i \in Invocations : SetSending(i)
    \/ \E i \in Invocations : GetRpcUrl(i)
    \/ \E i \in Invocations : CheckApproval(i)
    \/ \E i \in Invocations : ApproveTokens(i)
    \/ \E i \in Invocations : RecordApproval(i)
    \/ \E i \in Invocations : ApproveWait(i)
    \/ \E i \in Invocations : SubmitEvmParts(i)
    \/ \E i \in Invocations : TxWait(i)
    \/ \E i \in Invocations : SubmitSolanaParts(i)
    \/ \E i \in Invocations : RecordTx(i)
    \/ \E i \in Invocations : Confirm(i)
    \/ \E i \in Invocations : UpdateTx(i)
    \/ \E i \in Invocations : MarkRecipient(i)
    \/ \E i \in Invocations : Progress(i)
    \/ \E i \in Invocations : Delay(i)
    \/ \E i \in Invocations : MarkFailed(i)
    \/ \E i \in Invocations : Final(i)
    \/ \E i \in Invocations : SetCompleted(i)
    \/ \E i \in Invocations : Catch(i)

SpecParts == InitParts /\ [][NextParts]_vars

\* C33: a recipient is marked COMPLETED only if its transfer was part of a
\* transaction that was submitted successfully and then confirmed: of the
\* recipients a run loaded, the COMPLETED ones are among those whose transfer
\* was sent; on Solana the recipients of a failed sub-batch are not marked
\* COMPLETED when another sub-batch of the batch succeeded.
C33_CompletedOnlyIfConfirmed ==
    \A i \in Invocations :
        LET r == inv[i]
        IN  Active(i) =>
               \A a \in Range(r.recipients) :
                   dbRecipients[r.cid][a].status = "COMPLETED" => a \in r.sent

\* C34: the status of a recipient only moves forward during a run: no step
\* puts a recipient back to PENDING, and a recipient that has been marked
\* COMPLETED is never afterwards marked FAILED or PENDING.
C34_StatusMovesForward ==
    [][\A c \in Campaigns :
          \A a \in DOMAIN dbRecipients[c] :
              LET old == dbRecipients[c][a].status
                  new == dbRecipients'[c][a].status
              IN  /\ old # "PENDING" => new # "PENDING"
                  /\ old = "COMPLETED" => new = "COMPLETED"]_vars

\* C35: when a run that took the lock returns or throws, the stored status
\* of the campaign is PAUSED, COMPLETED or FAILED: a campaign is never left
\* as SENDING once its lock has been released.
C35_NotSendingWithoutLock ==
    \A c \in Campaigns :
        dbCampaigns[c].status = "SENDING" => IsExecuting(c)

(***************************************************************************)
(* SolanaService.getTransactionStatus, the status function of the wait on   *)
(* Solana.  PollStatus is Poll with the lookup taken read by read on        *)
(* Solana; it keeps in readErrors the number of reads of the last lookup    *)
(* that threw.  The status function of the EVM chains is outside the        *)
(* sources and stays as in Poll.                                            *)
(***************************************************************************)
\* const maxRetries = 3
MaxStatusRetries == 3

\* what the reads of one lookup can give: the read throws, the transaction
\* is not found (pending), it has meta.err (failed), or it is there without
\* an error (confirmed); an empty hash names no transaction
SolanaReads(hash) ==
    [1..MaxStatusRetries ->
        IF hash = EmptyHash THEN {"error", "pending"}
        ELSE {"error", "pending", "failed", "confirmed"}]

\* the reads that threw before the lookup returned
LeadingErrors(reads) ==
    Cardinality({p \in DOMAIN reads : \A q \in 1..p : reads[q] = "error"})

\* for (attempt = 0; attempt < maxRetries; attempt++): the first read that
\* does not throw decides; when the last read throws the lookup resolves to
\* failed
RECURSIVE SolanaLookup(_, _)
SolanaLookup(reads, attempt) ==
    IF attempt >= MaxStatusRetries THEN "failed"
    ELSE IF reads[attempt + 1] # "error" THEN reads[attempt + 1]
    ELSE IF attempt = MaxStatusRetries - 1 THEN "failed"
    ELSE SolanaLookup(reads, attempt + 1)

\* await getTransactionStatus(txHash) in the try block, read by read on Solana
PollStatus(i) ==
    /\ At(i, "poll")
    /\ IF inv[i].campaign.chain = "solana"
       THEN \E reads \in SolanaReads(inv[i].hash) :
               LET status == SolanaLookup(reads, 0)
                   r == [inv[i] EXCEPT !.readErrors = LeadingErrors(reads)]
               IN  /\ Goto(i, PollResult(r, status))
                   /\ IF r.readErrors > 0 \/ (status = "failed" /\ r.hash # EmptyHash)
                      THEN Fault ELSE NoFault
       ELSE \/ /\ \E status \in StatusResults(inv[i].hash) :
                     /\ Goto(i, PollResult([inv[i] EXCEPT !.readErrors = 0], status))
                     /\ IF status = "failed" /\ inv[i].hash # EmptyHash
                        THEN Fault ELSE NoFault
            \/ /\ Goto(i, [inv[i] EXCEPT !.pc = "recheck", !.recheck = 1,
                                           !.readErrors = 1])
               /\ Fault
    /\ UNCHANGED <<executionMap, pauseMap, outcome, dbVars, storeUp>>

NextStatus ==
    \/ \E i \in Invocations, c \in Campaigns, batchSize \in BatchSizes : Run(i, c, batchSize)
    \/ \E i \in Invocations : GetCampaign(i)
    \/ \E i \in Invocations : GetPending(i)
    \/ \E i \in Invocations : CompleteEmpty(i)
    \/ \E i \in Invocations : SetSending(i)
    \/ \E i \in Invocations : SetPaused(i)
    \/ \E i \in Invocations : GetRpcUrl(i)
    \/ \E i \in Invocations : CheckApproval(i)
    \/ \E i \in Invocations : ApproveTokens(i)
    \/ \E i \in Invocations : RecordApproval(i)
    \/ \E i \in Invocations : ApproveWait(i)
    \/ \E i \in Invocations : SubmitEvm(i)
    \/ \E i \in Invocations : TxWait(i)
    \/ \E i \in Invocations : SubmitSolana(i)
    \/ \E i \in Invocations : RecordTx(i)
    \/ \E i \in Invocations : UpdateTx(i)
    \/ \E i \in Invocations : MarkRecipient(i)
    \/ \E i \in Invocations : Progress(i)
    \/ \E i \in Invocations : Delay(i)
    \/ \E i \in Invocations : MarkFailed(i)
    \/ \E i \in Invocations : Final(i)
    \/ \E i \in Invocations : SetCompleted(i)
    \/ \E i \in Invocations : Catch(i)
    \/ \E c \in Campaigns : PauseExecution(c)
    \/ \E c \in Campaigns : ResumeExecution(c)
    \/ StoreFails
    \/ StoreRecovers
    \/ \E i \in Invocations : WaitEnter(i)
    \/ \E i \in Invocations : WaitLoop(i)
    \/ \E i \in Invocations : PollStatus(i)
    \/ \E i \in Invocations : Sleep(i)
    \/ \E i \in Invocations : Recheck(i)

SpecStatus == InitWait /\ [][NextStatus]_vars

\* C36: the confirmation wait reports finalStatus failed only when the chain
\* reported the transaction as failed: when the wait has returned failed,
\* the lookup that decided it read the transaction, it did not give up
\* after read errors.
C36_FailedOnlyFromChain ==
    \A i \in Invocations :
        (At(i, "updateTx") /\ inv[i].conf = "failed" /\ inv[i].hash # EmptyHash)
            => inv[i].readErrors < MaxStatusRetries

\* C37: a run ends with campaign status PAUSED only if a recipient is still
\* PENDING: a stored status of PAUSED always comes with a pending recipient,
\* and a run that has left the loop after its last batch, whether or not a
\* pause was requested meanwhile, has not stored PAUSED and goes on to
\* complete the campaign.
C37_PausedOnlyWithPending ==
    /\ \A c \in Campaigns :
           dbCampaigns[c].status = "PAUSED"
              => RecipientCount(dbRecipients[c], "PENDING") >= 1
    /\ \A i \in Invocations :
           LET r == inv[i]
           IN  /\ (At(i, "final") /\ r.batchIndex >= r.totalBatches)
                     => dbCampaigns[r.cid].status = "SENDING"
               /\ At(i, "setCompleted")
                     => /\ dbCampaigns[r.cid].status = "SENDING"
                        /\ RecipientCount(dbRecipients[r.cid], "PENDING") = 0

\* a pause was requested while the last batch was in flight, and the run is
\* about to store COMPLETED
C37_Witness ==
    \E i \in Invocations :
        /\ At(i, "setCompleted") /\ MapGet(pauseMap, inv[i].cid)
        /\ inv[i].totalBatches = 2
        /\ dbCampaigns[inv[i].cid].status = "SENDING"

\* SpecStatus with the scheduling of the wait: a status call returns or
\* fails in finite time and a sleep ends, so no step of the polling loop
\* stays enabled for ever without being taken
SpecStatusFair ==
    /\ InitWait
    /\ [][NextStatus]_vars
    /\ \A i \in Invocations :
           /\ WF_vars(WaitLoop(i))
           /\ WF_vars(PollStatus(i))
           /\ WF_vars(Sleep(i))
           /\ WF_vars(Recheck(i))

\* C38: waitForTransactionConfirmation always returns a result and never
\* throws: a wait that has started comes back to executeBatch, and when it
\* has come back its outcome is one of confirmed, failed or timeout, also
\* when status calls threw on the way.
C38_WaitAlwaysReturns ==
    /\ [](\A i \in Invocations :
             At(i, "updateTx") => inv[i].conf \in {"confirmed", "failed", "timeout"})
    /\ \A i \in Invocations : Waiting(i) ~> At(i, "updateTx")

\* the wait ran out after a status call threw and the re-check threw as well
C38_Witness ==
    \E i \in Invocations :
        /\ At(i, "updateTx") /\ inv[i].conf = "timeout"
        /\ inv[i].campaign.chain = "evm" /\ inv[i].readErrors = 1

(***************************************************************************)
(* The token approval of an EVM batch.  Spec takes checkApproval as a       *)
(* choice; CheckApprovalAmount and ApproveTokensAmount compute it from the  *)
(* allowance the token contract reports and the amounts of the batch.  An   *)
(* amount is m * 10^e with one significant digit (the integers of the       *)
(* checker cannot hold 10^18); every recipient of the model gets 1 token.   *)
(***************************************************************************)
\* ethers.parseEther: parseUnits with 18 decimals
EtherDecimals == 18

\* campaign.tokenDecimals
TokenDecimals == {0, 6}

\* the hash approveTokens returns when it sends nothing
AlreadyApproved == -3

\* ethers.parseUnits(q, decimals)
ParseUnits(q, decimals) == IF q.m = 0 THEN q ELSE [q EXCEPT !.e = @ + decimals]

\* a >= b
AtLeast(a, b) ==
    \/ b.m = 0
    \/ a.m # 0 /\ (a.e > b.e \/ (a.e = b.e /\ a.m >= b.m))

\* amounts.reduce((sum, amt) => BigInt(sum) + BigInt(amt)): the amounts as written
BatchSum(r) == [m |-> Len(Batch(r)), e |-> 0]

\* totalAmount: the sum of parseUnits(amount, tokenDecimals), in base units
TotalAmount(r, decimals) == ParseUnits(BatchSum(r), decimals)

\* the allowances the token contract can report for a batch
Allowances(r, decimals) ==
    {Zero, BatchSum(r), TotalAmount(r, decimals),
     ParseUnits(TotalAmount(r, decimals), EtherDecimals)}

\* checkApproval: allowance >= ethers.parseEther(requiredAmount); false
\* when the allowance cannot be read
CheckApprovalResult(allowance, requiredAmount, readOk) ==
    readOk /\ AtLeast(allowance, ParseUnits(requiredAmount, EtherDecimals))

\* contractService.checkApproval(..., totalAmount.toString()) and
\* if (!approvalNeeded)
CheckApprovalAmount(i) ==
    /\ At(i, "checkApproval")
    /\ \E decimals \in TokenDecimals, readOk \in BOOLEAN :
          \E allowance \in Allowances(inv[i], decimals) :
             LET total == TotalAmount(inv[i], decimals)
                 approved == CheckApprovalResult(allowance, total, readOk)
             IN  /\ Goto(i, [inv[i] EXCEPT
                                !.pc = IF approved THEN "submit" ELSE "approve",
                                !.approval = [allowance |-> allowance, total |-> total]])
                 /\ IF readOk THEN NoFault ELSE Fault
    /\ UNCHANGED <<executionMap, pauseMap, outcome, dbVars, storeUp>>

\* contractService.approveTokens(..., sum of the amounts): it throws, it
\* returns 'already-approved' when the allowance covers the sum, or it
\* sends the approval and returns its hash
ApproveTokensAmount(i) ==
    /\ At(i, "approve")
    /\ \/ /\ \E q \in BatchThrow(inv[i], "network") : Goto(i, q)
          /\ Fault
       \/ /\ Goto(i, [inv[i] EXCEPT
                         !.pc = "recordApproval",
                         !.hash = IF AtLeast(inv[i].approval.allowance, BatchSum(inv[i]))
                                  THEN AlreadyApproved
                                  ELSE FreshHash(inv[i], "APPROVE_TOKENS")])
          /\ NoFault
    /\ UNCHANGED <<executionMap, pauseMap, outcome, dbVars, storeUp>>

\* one READY campaign on an EVM chain, with its transactions followed; the
\* store stays up and nobody pauses the campaign
InitApproval ==
    /\ executionMap = EmptyMap /\ pauseMap = EmptyMap
    /\ inv = [i \in Invocations |-> IdleInv]
    /\ outcome = [i \in Invocations |-> "none"]
    /\ \E n \in 0..FewRecipients :
          /\ dbCampaigns = [c \in Campaigns |->
                               [status |-> "READY", chain |-> "evm", walletKey |-> TRUE]]
          /\ dbRecipients = [c \in Campaigns |-> [a \in 1..n |-> NewRecipient]]
    /\ dbTransactions = {} /\ txTracked = TRUE
    /\ dbChains = {"evm", "solana"}
    /\ storeUp = TRUE /\ faults = 0

NextApproval ==
    \/ \E i \in Invocations, c \in Campaigns, batchSize \in BatchSizes : Run(i, c, batchSize)
    \/ \E i \in Invocations : GetCampaign(i)
    \/ \E i \in Invocations : GetPending(i)
    \/ \E i \in Invocations : CompleteEmpty(i)
    \/ \E i \in Invocations : SetSending(i)
    \/ \E i \in Invocations : GetRpcUrl(i)
    \/ \E i \in Invocations : CheckApprovalAmount(i)
    \/ \E i \in Invocations : ApproveTokensAmount(i)
    \/ \E i \in Invocations : RecordApproval(i)
    \/ \E i \in Invocations : ApproveWait(i)
    \/ \E i \in Invocations : SubmitEvm(i)
    \/ \E i \in Invocations : TxWait(i)
    \/ \E i \in Invocations : RecordTx(i)
    \/ \E i \in Invocations : Confirm(i)
    \/ \E i \in Invocations : UpdateTx(i)
    \/ \E i \in Invocations : MarkRecipient(i)
    \/ \E i \in Invocations : Progress(i)
    \/ \E i \in Invocations : Delay(i)
    \/ \E i \in Invocations : MarkFailed(i)
    \/ \E i \in Invocations : Final(i)
    \/ \E i \in Invocations : SetCompleted(i)
    \/ \E i \in Invocations : Catch(i)

SpecApproval == InitApproval /\ [][NextApproval]_vars

\* C39: on an EVM chain, when the allowance already covers the total of the
\* batch, executeBatch sends no approval, records no approval transaction
\* and waits for no approval confirmation: it is on the approval path only
\* when the allowance is below the total, and no approval transaction is
\* recorded under the hash of an approval that was never sent.
C39_ApprovalOnlyWhenNeeded ==
    /\ \A i \in Invocations :
           inv[i].pc \in {"approve", "recordApproval", "approveWait"}
              => ~AtLeast(inv[i].approval.allowance, inv[i].approval.total)
    /\ \A t \in dbTransactions : t.hash # AlreadyApproved

(***************************************************************************)
(* The polling interval of the confirmation wait, in milliseconds.  The     *)
(* other specifications count the time of a wait in check intervals;        *)
(* SpecInterval follows one wait whose status checks all report pending,    *)
(* with the intervals calculateDynamicCheckInterval gives.  `timing` keeps  *)
(* the check interval, the maximum wait and the congestion of the wait, the *)
(* last interval computed and the elapsed time it was computed at.          *)
(***************************************************************************)
\* NETWORK_CONFIGS of ethereum, arbitrum and solana-mainnet-beta
NetworkConfigs ==
    {[chain |-> "evm", averageBlockTime |-> 12000, baseTimeout |-> 300000],
     [chain |-> "evm", averageBlockTime |-> 250, baseTimeout |-> 60000],
     [chain |-> "solana", averageBlockTime |-> 400, baseTimeout |-> 30000]}

\* Math.round(x * percent / 100) for integers x and percent
RoundPercent(x, percent) == (x * percent + 50) \div 100

\* calculateCheckInterval: 1000 or 500 on Solana, 1.5 or 0.8 block times on EVM
CalculateCheckInterval(config, congested) ==
    IF config.chain = "solana" THEN (IF congested THEN 1000 ELSE 500)
    ELSE (config.averageBlockTime * (IF congested THEN 15 ELSE 8)) \div 10

\* maxWaitTime with adaptiveTimeout: recommendedTimeout * networkCongestionMultiplier,
\* where recommendedTimeout is round(baseTimeout * 1.5) when congested and
\* the multiplier executeBatch passes is 1.2
AdaptiveMaxWait(config, congested) ==
    (RoundPercent(config.baseTimeout, IF congested THEN 150 ELSE 100) * 12) \div 10

\* variant of IntervalPercent that checks more often late in the wait
IntervalPercentShrinking(elapsed, maxWaitTime, congested) ==
    ((IF elapsed * 10 > maxWaitTime * 8 THEN 100
      ELSE IF elapsed * 10 > maxWaitTime * 5 THEN 150
      ELSE 200) * (IF congested THEN 12 ELSE 10)) \div 10

\* intervalMultiplier, in percent: 2.0 when progress > 0.8, 1.5 when
\* progress > 0.5, else 1.0, times 1.2 when the network is congested
IntervalPercent(elapsed, maxWaitTime, congested) ==
    ((IF elapsed * 10 > maxWaitTime * 8 THEN 200
      ELSE IF elapsed * 10 > maxWaitTime * 5 THEN 150
      ELSE 100) * (IF congested THEN 12 ELSE 10)) \div 10

\* calculateDynamicCheckInterval: Math.round(baseInterval * intervalMultiplier)
CalculateDynamicCheckInterval(elapsed, maxWaitTime, baseInterval, congested) ==
    RoundPercent(baseInterval, IntervalPercent(elapsed, maxWaitTime, congested))

\* while (Date.now() - startTime < maxWaitTime), and the return after it
WaitLoopMs(i) ==
    /\ At(i, "waitLoop")
    /\ IF inv[i].elapsed < inv[i].timing.maxWait
       THEN Goto(i, [inv[i] EXCEPT !.pc = "poll"])
       ELSE Goto(i, WaitReturn(inv[i], "timeout"))
    /\ UNCHANGED <<executionMap, pauseMap, outcome, dbVars, storeVars>>

\* the status check reports pending: the dynamic interval is computed
PollPendingMs(i) ==
    /\ At(i, "poll")
    /\ LET r == inv[i]
           t == r.timing
       IN  Goto(i, [r EXCEPT !.pc = "sleep",
                             !.timing.at = r.elapsed,
                             !.timing.interval =
                                 CalculateDynamicCheckInterval(r.elapsed, t.maxWait,
                                                               t.base, t.congested)])
    /\ UNCHANGED <<executionMap, pauseMap, outcome, dbVars, storeVars>>

\* await this.sleep(dynamicInterval)
SleepMs(i) ==
    /\ At(i, "sleep")
    /\ Goto(i, [inv[i] EXCEPT !.pc = "waitLoop", !.elapsed = @ + inv[i].timing.interval])
    /\ UNCHANGED <<executionMap, pauseMap, outcome, dbVars, storeVars>>

\* a run of one recipient that has sent its batch and enters the wait
InitInterval ==
    /\ executionMap = MapSet(EmptyMap, "c1", TRUE)
    /\ pauseMap = MapSet(EmptyMap, "c1", FALSE)
    /\ outcome = [i \in Invocations |-> "none"]
    /\ \E config \in NetworkConfigs, congested \in BOOLEAN :
          /\ dbCampaigns = [c \in Campaigns |->
                               [status |-> "SENDING", chain |-> config.chain,
                                walletKey |-> TRUE]]
          /\ inv = [i \in Invocations |->
                       IF i # 1 THEN IdleInv
                       ELSE [IdleInv EXCEPT
                               !.pc = "waitLoop", !.cid = "c1",
                               !.batchSize = DefaultBatchSize,
                               !.campaign = [status |-> "READY", chain |-> config.chain,
                                             walletKey |-> TRUE],
                               !.recipients = <<1>>, !.totalBatches = 1, !.attempt = 1,
                               !.hash = TxHash(1, 1, "BATCH_SEND"), !.landed = 1,
                               !.timing = [base |-> CalculateCheckInterval(config, congested),
                                           maxWait |-> AdaptiveMaxWait(config, congested),
                                           congested |-> congested,
                                           interval |-> 0, at |-> 0]]]
    /\ dbRecipients = [c \in Campaigns |-> <<NewRecipient>>]
    /\ dbTransactions = {} /\ txTracked = FALSE
    /\ dbChains = {"evm", "solana"}
    /\ storeUp = TRUE /\ faults = 0

NextInterval ==
    \/ \E i \in Invocations : WaitLoopMs(i)
    \/ \E i \in Invocations : PollPendingMs(i)
    \/ \E i \in Invocations : SleepMs(i)

SpecInterval == InitInterval /\ [][NextInterval]_vars

\* an interval has been computed in the wait of invocation i
IntervalComputed(i) == inv[i].timing.interval > 0

\* the statement of C40 as it was made: the interval is the base interval
\* until 50% of the maximum wait has elapsed, 1.5 times the base interval
\* after 50% and 2 times the base interval after 80%.
C40_IntervalSchedule ==
    \A i \in Invocations :
        LET t == inv[i].timing
        IN  IntervalComputed(i) =>
               t.interval * 10 =
                   t.base * (IF t.at * 10 > t.maxWait * 8 THEN 20
                             ELSE IF t.at * 10 > t.maxWait * 5 THEN 15
                             ELSE 10)

\* C40: the polling interval is the base interval until 50% of the maximum
\* wait has elapsed, 1.5 times the base interval after 50% and 2 times after
\* 80%, each multiplied by 1.2 when the network is assessed as congested,
\* and rounded; within one wait the interval never shrinks as the elapsed
\* time grows.
C40_IntervalScheduleCongestion ==
    /\ [](\A i \in Invocations :
             LET t == inv[i].timing
                 step == IF t.at * 10 > t.maxWait * 8 THEN 200
                         ELSE IF t.at * 10 > t.maxWait * 5 THEN 150
                         ELSE 100
                 percent == IF t.congested THEN (step * 12) \div 10 ELSE step
             IN  IntervalComputed(i) => t.interval = RoundPercent(t.base, percent))
    /\ [][\A i \in Invocations :
             /\ inv'[i].elapsed >= inv[i].elapsed \/ inv'[i].pc = "updateTx"
             /\ inv'[i].timing.interval >= inv[i].timing.interval]_vars

\* past 80% of the maximum wait on a congested network the wait sleeps 2.4
\* times the base interval
C40_Witness ==
    \E i \in Invocations :
        LET t == inv[i].timing
        IN  /\ At(i, "sleep") /\ t.congested
            /\ t.at * 10 > t.maxWait * 8
            /\ t.interval * 10 = t.base * 24

====
